---- MODULE Spec2Model ----
(***************************************************************************)
(* A model of src/src/util.ts of vscode-go: the diagnostic merge step      *)
(* (handleDiagnosticErrors / deDupeDiagnostics) over the three             *)
(* process-wide diagnostic collections, and the tool runner (runTool) with *)
(* its cancellation listener and its execFile callback.                    *)
(***************************************************************************)
EXTENDS Integers, Sequences, FiniteSets, TLC

(***************************************************************************)
(* Bounds of the model.                                                    *)
(***************************************************************************)
\* Highest 1-based line number a tool reports.
MaxLine == 2
\* Longest list of ICheckResult one build or lint run hands to the merge.
MaxErrors == 2
\* Longest list of ICheckResult one vet run hands to the merge.
MaxVetErrors == 1

\* Number of runTool calls.
MaxRuns == 1
\* Number of cancellation tokens the callers hold.
MaxTokens == 1

\* File paths the tools report (ICheckResult.file).
Paths == {"/a.go", "/b.go"}
Lines == 1..MaxLine
\* Messages the tools report (ICheckResult.msg).
Msgs == {"m"}
\* The severity strings callers pass to runTool.
Severities == {"warning"}

VARIABLES
    buildDiagnosticCollection,  \* uri -> sequence of Diagnostic (goMain's build collection)
    lintDiagnosticCollection,   \* uri -> sequence of Diagnostic (goMain's lint collection)
    vetDiagnosticCollection,    \* uri -> sequence of Diagnostic (goMain's vet collection)
    lastHandled                 \* history: the last handleDiagnosticErrors call (its collection,
                                \* its errors, and how many diagnostics it filtered out)

mergeVars == <<buildDiagnosticCollection, lintDiagnosticCollection,
               vetDiagnosticCollection, lastHandled>>

VARIABLES
    runs,            \* per runTool call: its arguments, its promise, its process handle p,
                     \* its cancellation listener, and history (kills issued, what the
                     \* callback was given)
    tokenCancelled,  \* per token: whether cancellation has been requested
    killTreeCalls    \* the process ids killTree has been called with, in order
                     \* (0 stands for an undefined pid)

runVars == <<runs, tokenCancelled, killTreeCalls>>

VARIABLES
    converter,   \* the closure makeMemoizedByteOffsetConverter returned: its buffer
                 \* and its memo (byte offset -> character offset)
    lastQuery    \* history: the last call of the converter (its argument, the
                 \* sample it started from, the bytes it decoded, what it returned)

convVars == <<converter, lastQuery>>

VARIABLES
    goVersion,       \* the GoVersion instance: its sv and isDevel fields
    lastComparison   \* history: the last lt or gt call (its argument, its result)

versionVars == <<goVersion, lastComparison>>

VARIABLES
    cachedGoVersion,  \* the module's cachedGoVersion: a GoVersion, or not set
    goBinary,         \* what getBinPath('go') resolves at the moment
    versionCalls      \* per getGoVersion call: where it is, the goRuntimePath it
                      \* resolved, what it returned, and history (the cache it
                      \* found, whether it ran "go version")

cacheVars == <<cachedGoVersion, goBinary, versionCalls>>

VARIABLES
    lineBuffer,  \* a LineBuffer: its buf, lineListeners and lastListeners
    heard        \* history: the chunks appended, how often done() was called, what
                 \* each listener was called with, and after how many chunks each
                 \* line listener was registered

bufferVars == <<lineBuffer, heard>>

vars == <<mergeVars, runVars, convVars, versionVars, cacheVars, bufferVars>>

(***************************************************************************)
(* Data.                                                                   *)
(***************************************************************************)
\* Not a number: the value of +undefined.
NaN == -1

\* The columns of the errors handed to the merge: none (runTool then stores
\* NaN).
Cols == {NaN}

\* interface ICheckResult { file; line; col; msg; severity }.
ICheckResult ==
    [file : Paths, line : Lines, col : Cols, msg : Msgs, severity : Severities]

\* The names of the three collections; the name is also Diagnostic.source.
Collections == {"build", "lint", "vet"}

\* vscode.Uri.file(error.file).toString() for the plain absolute paths of the model.
UriFile(file) == "file://" \o file

\* vscode.Uri.parse(file): the collections are keyed by uri.toString(), which
\* for a string produced by UriFile gives that string back.
UriParse(file) == file

\* A collection is a function from the uris it has to their diagnostics;
\* has(uri) is membership in its domain.
Has(collection, uri) == uri \in DOMAIN collection

\* DiagnosticCollection.set(uri, diagnostics) with a defined array.
Set(collection, uri, diagnostics) ==
    [u \in (DOMAIN collection) \cup {uri} |->
        IF u = uri THEN diagnostics ELSE collection[u]]

\* DiagnosticCollection.clear().
Clear(collection) == <<>>

mapSeverityToVSCodeSeverity(sev) ==
    CASE sev = "error" -> "Error"
      [] sev = "warning" -> "Warning"
      [] OTHER -> "Error"

\* The document argument when it is undefined.
NoDocument == [given |-> FALSE]

\* The text of every line of the documents of the model: " x ".
LineText == <<" ", "x", " ">>

\* A vscode.TextDocument: its uri.toString() and the texts of its lines.
DocumentOf(file, lineCount) ==
    [given |-> TRUE, uri |-> UriFile(file), lines |-> [i \in 1..lineCount |-> LineText]]

\* The documents handleDiagnosticErrors is called with: none, and a document
\* of /a.go that is one line shorter than the lines the tools report.
Documents == {NoDocument, DocumentOf("/a.go", MaxLine - 1)}

\* \s, for the characters of the model.
IsSpace(c) == c \in {" ", "\t", "\r", "\n"}

\* The length of group 1 of /^(\s*).*(\s*)$/: the white space the text
\* starts with.
LeadingLength(text) ==
    IF \A i \in DOMAIN text : IsSpace(text[i]) THEN Len(text)
    ELSE (CHOOSE i \in DOMAIN text :
             /\ ~IsSpace(text[i])
             /\ \A j \in 1..(i - 1) : IsSpace(text[j])) - 1

\* The length of group 2 of /^(\s*).*(\s*)$/: the greedy .* before it takes
\* the text to its end, white space included, so the group is always empty.
TrailingLength(text) == 0

\* Whether the branch of lines 770-785 is taken for an error.
InDocument(document, error) ==
    document.given /\ document.uri = UriFile(error.file)

\* Whether document.lineAt(error.line - 1) throws: the document has no such
\* line.
LineAtThrows(document, error) ==
    InDocument(document, error) /\ error.line \notin DOMAIN document.lines

\* new vscode.Range(line, startColumn, line, endColumn): the columns of its
\* start and its end; a start that is after the end is swapped with it.
NewRange(startColumn, endColumn) ==
    IF startColumn <= endColumn THEN [start |-> startColumn, end |-> endColumn]
    ELSE [start |-> endColumn, end |-> startColumn]

\* The vscode.Diagnostic built for one error: range (line-1, startColumn)-
\* (line-1, endColumn), the message, the mapped severity and the
\* collection's name as source.  Without a document of the error's file the
\* columns are 0 and 1; with it, startColumn is the leading white space of
\* the line, or col - 1 when the error has a column, and endColumn the
\* length of the line less group 2.  The diagnostic holds the columns as
\* the range keeps them.
NewDiagnostic(document, error, name) ==
    LET text == IF InDocument(document, error) THEN document.lines[error.line] ELSE <<>>
        noCol == error.col = NaN \/ error.col = 0
        startColumn == IF ~InDocument(document, error) THEN 0
                       ELSE IF noCol THEN LeadingLength(text)
                       ELSE error.col - 1
        endColumn == IF ~InDocument(document, error) THEN 1
                     ELSE Len(text) - TrailingLength(text)
        range == NewRange(startColumn, endColumn)
    IN [line |-> error.line - 1, startColumn |-> range.start, endColumn |-> range.end,
        message |-> error.msg,
        severity |-> mapSeverityToVSCodeSeverity(error.severity),
        source |-> name]

(***************************************************************************)
(* runTool: the state of the calls.                                        *)
(***************************************************************************)
Runs == 1..MaxRuns

Tokens == 1..MaxTokens

NoCall == [made |-> FALSE]

Pending == [state |-> "pending"]

\* A runTool or runGodoc call that has not been made.  p is the ChildProcess
\* variable of the call: "unset" (undefined), "running" (a spawned process,
\* with a pid), "failed" (a handle whose spawn failed: no pid, the callback
\* still to come) or "ended" (the callback has run).  order is the place of
\* the call's listener among the listeners registered so far (0: none).
IdleRun ==
    [call |-> NoCall, promise |-> [state |-> "none"], p |-> "unset", pid |-> 0,
     listener |-> "none", order |-> 0, cancelledInFlight |-> FALSE,
     execFileCalled |-> FALSE, captured |-> [given |-> FALSE]]

RunInit ==
    /\ runs = [r \in Runs |-> IdleRun]
    /\ tokenCancelled = [t \in Tokens |-> FALSE]
    /\ killTreeCalls = <<>>

\* No converter has been made, no GoVersion constructed.
ConvInit ==
    /\ converter = [made |-> FALSE]
    /\ lastQuery = [made |-> FALSE]

VersionInit ==
    /\ goVersion = [made |-> FALSE]
    /\ lastComparison = [made |-> FALSE]

\* The listeners of the model, the chunks appended to a LineBuffer and the
\* characters of a chunk.
MaxListeners == 2

MaxChunks == 3

MaxChunkLen == 2

Listeners == 1..MaxListeners

\* new LineBuffer(): an empty buf, no listeners.
BufferInit ==
    /\ lineBuffer = [buf |-> <<>>, lineListeners |-> <<>>, lastListeners |-> <<>>]
    /\ heard = [chunks |-> <<>>, done |-> 0,
                lines |-> [l \in Listeners |-> <<>>],
                last |-> [l \in Listeners |-> <<>>],
                since |-> [l \in Listeners |-> -1]]

\* The getGoVersion calls of the model.
MaxVersionCalls == 3

VersionCalls == 1..MaxVersionCalls

\* The paths getBinPath('go') can resolve; "none" stands for no path.
GoPaths == {"/a/go", "/b/go"}

\* A getGoVersion call that has not been made.
IdleVersionCall == [state |-> "idle"]

\* let cachedGoVersion: GoVersion | undefined; a go binary is resolved.
CacheInit ==
    /\ cachedGoVersion = [made |-> FALSE]
    /\ goBinary = "/a/go"
    /\ versionCalls = [c \in VersionCalls |-> IdleVersionCall]

(***************************************************************************)
(* The merge step: handleDiagnosticErrors and deDupeDiagnostics.           *)
(***************************************************************************)
\* The three collections as one value, so that the handler is a function
\* from stores to stores.
Stores ==
    [build |-> buildDiagnosticCollection,
     lint |-> lintDiagnosticCollection,
     vet |-> vetDiagnosticCollection]

\* buildDiagnostics.map((x) => x.range.start.line)
StartLines(diagnostics) == [i \in DOMAIN diagnostics |-> diagnostics[i].line]

\* array.indexOf(value): the first index (0-based) holding value, or -1.
IndexOf(array, value) ==
    IF \E i \in DOMAIN array : array[i] = value
    THEN (CHOOSE i \in DOMAIN array :
            /\ array[i] = value
            /\ \A j \in 1..(i - 1) : array[j] # value) - 1
    ELSE -1

\* Mutant of deDupeDiagnostics: the test is inverted, the colliding
\* diagnostics are the ones kept.
deDupeKeepsColliding(buildDiagnostics, otherDiagnostics) ==
    LET buildDiagnosticsLines == StartLines(buildDiagnostics)
        Keep(x) == IndexOf(buildDiagnosticsLines, x.line) # -1
    IN SelectSeq(otherDiagnostics, Keep)

\* Mutant of deDupeDiagnostics: the two arguments are taken in the other
\* order, so the build diagnostics are the ones filtered and returned.
deDupeSwapped(buildDiagnostics, otherDiagnostics) ==
    LET otherDiagnosticsLines == StartLines(otherDiagnostics)
        Keep(x) == IndexOf(otherDiagnosticsLines, x.line) = -1
    IN SelectSeq(buildDiagnostics, Keep)

\* function deDupeDiagnostics(buildDiagnostics, otherDiagnostics): the other
\* diagnostics whose start line is the start line of no build diagnostic.
deDupeDiagnostics(buildDiagnostics, otherDiagnostics) ==
    LET buildDiagnosticsLines == StartLines(buildDiagnostics)
        Keep(x) == IndexOf(buildDiagnosticsLines, x.line) = -1
    IN SelectSeq(otherDiagnostics, Keep)

\* The empty Map of handleDiagnosticErrors: its keys in insertion order and
\* its entries.
EmptyDiagnosticMap == [keys |-> <<>>, get |-> <<>>]

\* errors.forEach(...): every error becomes a Diagnostic appended to the
\* list of its canonical file; a file enters the Map at its first error.
RECURSIVE DiagnosticMapOf(_, _, _, _)
DiagnosticMapOf(document, errors, name, diagnosticMap) ==
    IF errors = <<>> THEN diagnosticMap
    ELSE LET error == Head(errors)
             canonicalFile == UriFile(error.file)
             known == canonicalFile \in DOMAIN diagnosticMap.get
             diagnostics == IF known THEN diagnosticMap.get[canonicalFile] ELSE <<>>
             diagnostic == NewDiagnostic(document, error, name)
         IN DiagnosticMapOf(document, Tail(errors), name,
                [keys |-> IF known THEN diagnosticMap.keys
                          ELSE Append(diagnosticMap.keys, canonicalFile),
                 get |-> Set(diagnosticMap.get, canonicalFile,
                             Append(diagnostics, diagnostic))])

\* The body of diagnosticMap.forEach((newDiagnostics, file) => ...) for one
\* file: a build arrival filters the stored lint and vet diagnostics of the
\* file, a lint or vet arrival filters the incoming ones against the stored
\* build diagnostics; then the arriving collection gets its list.
MergeFile(stores, name, file, newDiagnostics) ==
    LET fileUri == UriParse(file)
    IN IF name = "build"
       THEN [build |-> Set(stores.build, fileUri, newDiagnostics),
             lint |-> IF Has(stores.lint, fileUri)
                      THEN Set(stores.lint, fileUri,
                               deDupeDiagnostics(newDiagnostics, stores.lint[fileUri]))
                      ELSE stores.lint,
             vet |-> IF Has(stores.vet, fileUri)
                     THEN Set(stores.vet, fileUri,
                              deDupeDiagnostics(newDiagnostics, stores.vet[fileUri]))
                     ELSE stores.vet]
       ELSE LET kept == IF Has(stores.build, fileUri)
                        THEN deDupeDiagnostics(stores.build[fileUri], newDiagnostics)
                        ELSE newDiagnostics
            IN [stores EXCEPT ![name] = Set(stores[name], fileUri, kept)]

\* diagnosticMap.forEach: the files in insertion order, from the i-th on.
RECURSIVE ForEachFile(_, _, _, _)
ForEachFile(stores, name, diagnosticMap, i) ==
    IF i > Len(diagnosticMap.keys) THEN stores
    ELSE LET file == diagnosticMap.keys[i]
         IN ForEachFile(MergeFile(stores, name, file, diagnosticMap.get[file]),
                        name, diagnosticMap, i + 1)

\* Whether errors.forEach throws: document.lineAt throws for one of the
\* errors.
Throws(document, errors) ==
    \E k \in DOMAIN errors : LineAtThrows(document, errors[k])

\* handleDiagnosticErrors(document, errors, <the collection called name>).
\* When errors.forEach throws, only the clear() has happened.
handleDiagnosticErrors(stores, document, name, errors) ==
    LET cleared == [stores EXCEPT ![name] = Clear(stores[name])]
    IN IF Throws(document, errors) THEN cleared
       ELSE ForEachFile(cleared, name,
                        DiagnosticMapOf(document, errors, name, EmptyDiagnosticMap), 1)

\* The error lists of at most n results.
ErrorLists(n) == UNION {[1..k -> ICheckResult] : k \in 0..n}

\* What build and lint runs, and what vet runs, report in the model.
BuildErrorLists == ErrorLists(MaxErrors)

LintErrorLists == ErrorLists(MaxErrors)

VetErrorLists == ErrorLists(MaxVetErrors)

\* The number of diagnostics a collection holds, over all its files.
SizeOf(collection) ==
    LET RECURSIVE Sum(_)
        Sum(uris) ==
            IF uris = {} THEN 0
            ELSE LET u == CHOOSE v \in uris : TRUE
                 IN Len(collection[u]) + Sum(uris \ {u})
    IN Sum(DOMAIN collection)

\* History only: how many diagnostics the call filtered out, of the stored
\* lint and vet ones on a build arrival, of the incoming ones otherwise.
Dropped(before, after, name, errors) ==
    IF name = "build"
    THEN (SizeOf(before.lint) + SizeOf(before.vet))
         - (SizeOf(after.lint) + SizeOf(after.vet))
    ELSE Len(errors) - SizeOf(after[name])

\* One completed tool run is handed to the merge.
HandleDiagnosticErrors(document, name, errors) ==
    LET after == handleDiagnosticErrors(Stores, document, name, errors)
        threw == Throws(document, errors)
    IN /\ buildDiagnosticCollection' = after.build
       /\ lintDiagnosticCollection' = after.lint
       /\ vetDiagnosticCollection' = after.vet
       /\ lastHandled' = [collection |-> name, errors |-> errors,
                          document |-> document, threw |-> threw,
                          dropped |-> IF threw THEN 0
                                      ELSE Dropped(Stores, after, name, errors)]
       /\ UNCHANGED <<runVars, convVars, versionVars, cacheVars, bufferVars>>

HandleBuild ==
    \E document \in Documents, errors \in BuildErrorLists :
        HandleDiagnosticErrors(document, "build", errors)

HandleLint ==
    \E document \in Documents, errors \in LintErrorLists :
        HandleDiagnosticErrors(document, "lint", errors)

HandleVet ==
    \E document \in Documents, errors \in VetErrorLists :
        HandleDiagnosticErrors(document, "vet", errors)

\* The collections are created empty (goMain); nothing has been handled.
MergeInit ==
    /\ buildDiagnosticCollection = <<>>
    /\ lintDiagnosticCollection = <<>>
    /\ vetDiagnosticCollection = <<>>
    /\ lastHandled = [collection |-> "none", errors |-> <<>>, document |-> NoDocument,
                      threw |-> FALSE, dropped |-> 0]

MergeNext == HandleBuild \/ HandleLint \/ HandleVet

\* The whole initial state: empty collections, no runTool call made, no
\* converter, no GoVersion.
Init == MergeInit /\ RunInit /\ ConvInit /\ VersionInit /\ CacheInit /\ BufferInit

MergeSpec == Init /\ [][MergeNext]_vars

(***************************************************************************)
(* Properties of the merge step.                                           *)
(***************************************************************************)
\* The 0-based start lines a collection shows for a uri (none when absent).
LinesShown(collection, uri) ==
    IF Has(collection, uri)
    THEN {collection[uri][i].line : i \in DOMAIN collection[uri]}
    ELSE {}

\* The uris of the files an error list names.
UrisOf(errors) == {UriFile(errors[k].file) : k \in DOMAIN errors}

\* The 0-based lines an error list reports for a uri.
ErrorLinesAt(errors, uri) ==
    {errors[k].line - 1 : k \in {j \in DOMAIN errors : UriFile(errors[j].file) = uri}}

\* What a diagnostic says, whatever its columns: its line, message,
\* severity and source.
Said(diagnostic) ==
    [line |-> diagnostic.line, message |-> diagnostic.message,
     severity |-> diagnostic.severity, source |-> diagnostic.source]

\* What the diagnostics of a collection say, per file and in order.
SaidIn(collection) ==
    [uri \in DOMAIN collection |->
        [i \in DOMAIN collection[uri] |-> Said(collection[uri][i])]]

\* What the diagnostics of an error list say for a uri, in the list's order.
RECURSIVE DiagnosticsFor(_, _, _)
DiagnosticsFor(errors, name, uri) ==
    IF errors = <<>> THEN <<>>
    ELSE LET rest == DiagnosticsFor(Tail(errors), name, uri)
         IN IF UriFile(Head(errors).file) = uri
            THEN <<[line |-> Head(errors).line - 1, message |-> Head(errors).msg,
                    severity |-> mapSeverityToVSCodeSeverity(Head(errors).severity),
                    source |-> name]>> \o rest
            ELSE rest

\* A sequence without the diagnostics on one of the given lines.
WithoutLines(diagnostics, lines) ==
    LET Off(x) == x.line \notin lines
    IN SelectSeq(diagnostics, Off)

\* C1: no file has a line that carries both a Build diagnostic and a Lint or
\* Vet diagnostic, after any sequence of handleDiagnosticErrors calls.
C1_NoLineSharedWithBuild ==
    \A uri \in DOMAIN buildDiagnosticCollection :
        /\ LinesShown(buildDiagnosticCollection, uri)
             \cap LinesShown(lintDiagnosticCollection, uri) = {}
        /\ LinesShown(buildDiagnosticCollection, uri)
             \cap LinesShown(vetDiagnosticCollection, uri) = {}

\* C1 witness: a build run has just been merged into a file that has lint
\* and vet entries; the merge filtered some of them out and a lint
\* diagnostic on another line is still shown next to the build ones.
C1_Witness ==
    /\ lastHandled.collection = "build"
    /\ lastHandled.dropped > 0
    /\ \E uri \in DOMAIN buildDiagnosticCollection :
          /\ Has(lintDiagnosticCollection, uri)
          /\ Has(vetDiagnosticCollection, uri)
          /\ lintDiagnosticCollection[uri] # <<>>

\* What a build arrival with the given errors makes of a lint or vet
\* collection: the same files, each without the diagnostics on a line the
\* run reports for that file.
AfterBuildArrival(collection, errors) ==
    [uri \in DOMAIN collection |->
        WithoutLines(collection[uri], ErrorLinesAt(errors, uri))]

\* C2: handling a Build run removes from the Lint and the Vet store exactly
\* the diagnostics whose line is the line of an incoming Build diagnostic of
\* the same file; all others stay, in order, and other files are untouched.
C2_BuildArrivalFiltersLintAndVet ==
    [][lastHandled'.collection = "build" =>
          /\ lintDiagnosticCollection' =
                AfterBuildArrival(lintDiagnosticCollection, lastHandled'.errors)
          /\ vetDiagnosticCollection' =
                AfterBuildArrival(vetDiagnosticCollection, lastHandled'.errors)]_vars

\* What a lint or vet arrival stores: one entry per file of the run, holding
\* the run's diagnostics for it without those on a line of a stored build
\* diagnostic of that file.
StoredOnArrival(name, errors, build) ==
    [uri \in UrisOf(errors) |->
        IF name = "build" THEN DiagnosticsFor(errors, name, uri)
        ELSE WithoutLines(DiagnosticsFor(errors, name, uri), LinesShown(build, uri))]

\* C3: handling a Lint or Vet run stores the incoming diagnostics minus those
\* colliding with a stored Build diagnostic, and changes neither the Build
\* store nor the other non-Build store.
C3_LintVetArrivalLeavesBuild ==
    [][lastHandled'.collection \in {"lint", "vet"} =>
          /\ buildDiagnosticCollection' = buildDiagnosticCollection
          /\ SaidIn(Stores'[lastHandled'.collection]) =
                StoredOnArrival(lastHandled'.collection, lastHandled'.errors,
                                buildDiagnosticCollection)
          /\ \A other \in {"lint", "vet"} \ {lastHandled'.collection} :
                Stores'[other] = Stores[other]]_vars

\* The lists of a category whose errors all name one given file.
ListsFor(lists, path) ==
    {errors \in lists :
        /\ errors # <<>>
        /\ \A k \in DOMAIN errors : errors[k].file = path}

\* C4 (as claimed): from the current stores, handling a Build list B and then
\* a Lint (or Vet) list L of the same file ends in the same three stores as
\* handling L and then B.
C4_OrderConvergent ==
    \A path \in Paths :
        \A B \in ListsFor(BuildErrorLists, path) :
            /\ \A L \in ListsFor(LintErrorLists, path) :
                  handleDiagnosticErrors(
                      handleDiagnosticErrors(Stores, NoDocument, "build", B),
                      NoDocument, "lint", L)
                  = handleDiagnosticErrors(
                        handleDiagnosticErrors(Stores, NoDocument, "lint", L),
                        NoDocument, "build", B)
            /\ \A L \in ListsFor(VetErrorLists, path) :
                  handleDiagnosticErrors(
                      handleDiagnosticErrors(Stores, NoDocument, "build", B),
                      NoDocument, "vet", L)
                  = handleDiagnosticErrors(
                        handleDiagnosticErrors(Stores, NoDocument, "vet", L),
                        NoDocument, "build", B)

\* C5: right after a run of a category is handled, that category's store
\* holds exactly the run's post-merge diagnostics, per file and in the run's
\* order, and nothing of any earlier run of the category.
C5_StoreHoldsOnlyLastRun ==
    lastHandled.collection # "none" =>
        SaidIn(Stores[lastHandled.collection]) =
            StoredOnArrival(lastHandled.collection, lastHandled.errors,
                            buildDiagnosticCollection)

\* C6: handling the last handled run once more, with the other stores as
\* they are, changes none of the three stores.
C6_MergeIdempotent ==
    lastHandled.collection # "none" =>
        handleDiagnosticErrors(Stores, lastHandled.document, lastHandled.collection,
                               lastHandled.errors)
            = Stores

\* C6 witness: the run handled last had one of its diagnostics filtered out
\* and another stored, so handling it again filters again.
C6_Witness ==
    /\ lastHandled.collection \in {"lint", "vet"}
    /\ lastHandled.dropped > 0
    /\ SizeOf(Stores[lastHandled.collection]) > 0

(***************************************************************************)
(* runTool: the parser of the execFile callback.  Text is a sequence of    *)
(* one-character strings.                                                  *)
(***************************************************************************)
\* \d
IsDigit(c) == c \in {"0", "1", "2", "3", "4", "5", "6", "7", "8", "9"}

\* \w: letters, digits and the underscore.
IsWord(c) ==
    \/ IsDigit(c)
    \/ c \in {"a", "b", "c", "d", "e", "f", "g", "h", "i", "j", "k", "l", "m",
              "n", "o", "p", "q", "r", "s", "t", "u", "v", "w", "x", "y", "z", "_"}
    \/ c \in {"A", "B", "C", "D", "E", "F", "G", "H", "I", "J", "K", "L", "M",
              "N", "O", "P", "Q", "R", "S", "T", "U", "V", "W", "X", "Y", "Z"}

\* . : any character but a line terminator.
IsDot(c) == c \notin {"\n", "\r"}

\* path.sep on the platform modelled (posix).
PathSep == <<"/">>

\* The first index i >= from with text[i] = c, or Len(text) + 1.
IndexFrom(text, c, from) ==
    IF \E i \in from..Len(text) : text[i] = c
    THEN CHOOSE i \in from..Len(text) :
            /\ text[i] = c
            /\ \A j \in from..(i - 1) : text[j] # c
    ELSE Len(text) + 1

\* Whether c is in the character class: "d" for \d, "w" for \w.
InClass(c, class) == IF class = "d" THEN IsDigit(c) ELSE IsWord(c)

\* The index after the longest run of characters of the class that starts
\* at from (from itself when the run is empty).
RunEnd(text, from, class) ==
    IF \E i \in from..Len(text) : ~InClass(text[i], class)
    THEN CHOOSE i \in from..Len(text) :
            /\ ~InClass(text[i], class)
            /\ \A j \in from..(i - 1) : InClass(text[j], class)
    ELSE IF from > Len(text) THEN from ELSE Len(text) + 1

\* text.split('\n')
RECURSIVE SplitLines(_)
SplitLines(text) ==
    LET n == IndexFrom(text, "\n", 1)
    IN IF n > Len(text) THEN <<text>>
       ELSE <<SubSeq(text, 1, n - 1)>> \o SplitLines(SubSeq(text, n + 1, Len(text)))

\* No capture (an unmatched group is undefined).
Undefined == <<"undefined">>

NoMatch == [matched |-> FALSE]

\* The regular expression of the parser,
\*   /^([^:]*: )?((.:)?[^:]*):(\d+)(:(\d+)?)?:(?:\w+:)? (.*)$/
\* has four optional groups: the label "([^:]*: )", the drive "(.:)", the
\* column group "(:(\d+)?)" and the tag "(?:\w+:)".  Every starred or
\* plussed class is followed by a colon it cannot contain, so its extent is
\* forced once it is fixed which groups are taken.  The operators below
\* follow one such way through the expression, left to right.

\* " (.*)$" from index s, and the captures of the match: the file starts at
\* p, c is the colon after it, d the index after the line digits.
MatchMessage(l, p, c, d, colStr, s) ==
    IF s <= Len(l) /\ l[s] = " " /\ \A i \in (s + 1)..Len(l) : IsDot(l[i])
    THEN [matched |-> TRUE,
          file |-> SubSeq(l, p, c - 1),
          lineStr |-> SubSeq(l, c + 1, d - 1),
          colStr |-> colStr,
          msg |-> SubSeq(l, s + 1, Len(l))]
    ELSE NoMatch

\* ":(?:\w+:)?" from index e; w is the index after the word run at e + 1.
MatchTag(l, p, c, d, colStr, e, tag, w) ==
    IF ~(e <= Len(l) /\ l[e] = ":") THEN NoMatch
    ELSE IF ~tag THEN MatchMessage(l, p, c, d, colStr, e + 1)
    ELSE IF w > e + 1 /\ w <= Len(l) /\ l[w] = ":"
    THEN MatchMessage(l, p, c, d, colStr, w + 1)
    ELSE NoMatch

\* "(:(\d+)?)?" from index d; e is the index after the column digits when
\* the group is taken, and d when it is skipped.
MatchColumn(l, p, c, d, column, tag, e) ==
    IF column /\ ~(d <= Len(l) /\ l[d] = ":") THEN NoMatch
    ELSE MatchTag(l, p, c, d,
                  IF column /\ e > d + 1 THEN SubSeq(l, d + 1, e - 1) ELSE Undefined,
                  e, tag, RunEnd(l, e + 1, "w"))

\* ":(\d+)" at the colon c; d is the index after the digit run at c + 1.
MatchLineNumber(l, p, c, column, tag, d) ==
    IF ~(c <= Len(l) /\ d > c + 1) THEN NoMatch
    ELSE MatchColumn(l, p, c, d, column, tag,
                     IF column THEN RunEnd(l, d + 1, "d") ELSE d)

\* "((.:)?[^:]*)" from index p; c is the first colon after the drive, if
\* one is taken, and after p otherwise.
MatchFile(l, p, drive, column, tag, c) ==
    IF drive /\ ~(p + 1 <= Len(l) /\ IsDot(l[p]) /\ l[p + 1] = ":") THEN NoMatch
    ELSE MatchLineNumber(l, p, c, column, tag, RunEnd(l, c + 1, "d"))

\* "^([^:]*: )?": c1 is the first colon of the line; then the file, from p.
MatchLabel(l, label, drive, column, tag, c1, p) ==
    IF label /\ ~(c1 + 1 <= Len(l) /\ l[c1 + 1] = " ") THEN NoMatch
    ELSE MatchFile(l, p, drive, column, tag,
                   IndexFrom(l, ":", IF drive THEN p + 2 ELSE p))

\* The match with the given groups taken (TRUE) or skipped, if there is one.
MatchWith(l, label, drive, column, tag, c1) ==
    MatchLabel(l, label, drive, column, tag, c1, IF label THEN c1 + 2 ELSE 1)

\* The order in which a backtracking matcher tries the optional groups:
\* each one taken before skipped, the earlier group varying slowest.
OptionOrder(i) ==
    [label |-> (i - 1) \div 8 = 0,
     drive |-> ((i - 1) \div 4) % 2 = 0,
     column |-> ((i - 1) \div 2) % 2 = 0,
     tag |-> (i - 1) % 2 = 0]

\* The first of the ways i, i + 1, ... 16 that matches.
RECURSIVE FirstMatch(_, _)
OrElse(match, l, i) == IF match.matched THEN match ELSE FirstMatch(l, i + 1)

TryOptions(l, i, options) ==
    OrElse(MatchWith(l, options.label, options.drive, options.column, options.tag,
                     IndexFrom(l, ":", 1)),
           l, i)

FirstMatch(l, i) == IF i > 16 THEN NoMatch ELSE TryOptions(l, i, OptionOrder(i))

\* regex.exec(l): the first way through that matches, or no match.
RegexExec(l) == FirstMatch(l, 1)

DigitValue(c) ==
    CASE c = "0" -> 0 [] c = "1" -> 1 [] c = "2" -> 2 [] c = "3" -> 3
      [] c = "4" -> 4 [] c = "5" -> 5 [] c = "6" -> 6 [] c = "7" -> 7
      [] c = "8" -> 8 [] c = "9" -> 9

\* +str for a captured digit string, +undefined for an unmatched group.
RECURSIVE ToNumber(_)
ToNumber(str) ==
    IF str = Undefined THEN NaN
    ELSE IF str = <<>> THEN 0
    ELSE 10 * ToNumber(SubSeq(str, 1, Len(str) - 1)) + DigitValue(str[Len(str)])

\* str.startsWith(prefix)
StartsWith(str, prefix) ==
    Len(prefix) <= Len(str) /\ SubSeq(str, 1, Len(prefix)) = prefix

\* str.indexOf(sub) > -1
Contains(str, sub) ==
    \E i \in 1..(Len(str) - Len(sub) + 1) : SubSeq(str, i, i + Len(sub) - 1) = sub

\* path.isAbsolute(file) on posix.
IsAbsolute(file) == StartsWith(file, PathSep)

\* path.split('/'): the segments of a path, the empty ones included.
RECURSIVE PathSegments(_)
PathSegments(path) ==
    LET n == IndexFrom(path, "/", 1)
    IN IF n > Len(path) THEN <<path>>
       ELSE <<SubSeq(path, 1, n - 1)>> \o PathSegments(SubSeq(path, n + 1, Len(path)))

\* normalizeString of path.resolve for an absolute path: empty and "."
\* segments are dropped, ".." drops the segment before it, if there is one.
RECURSIVE NormalizeString(_, _)
NormalizeString(segments, res) ==
    IF segments = <<>> THEN res
    ELSE LET seg == Head(segments)
         IN IF seg = <<>> \/ seg = <<".">>
            THEN NormalizeString(Tail(segments), res)
            ELSE IF seg = <<".", ".">>
            THEN NormalizeString(Tail(segments),
                                 IF res = <<>> THEN res
                                 ELSE SubSeq(res, 1, Len(res) - 1))
            ELSE NormalizeString(Tail(segments), Append(res, seg))

\* The absolute path of the segments: "/" before each, "/" alone for none.
RECURSIVE JoinAbsolute(_)
JoinAbsolute(segments) ==
    IF segments = <<>> THEN PathSep
    ELSE IF Len(segments) = 1 THEN PathSep \o segments[1]
    ELSE PathSep \o segments[1] \o JoinAbsolute(Tail(segments))

\* path.resolve(cwd, file) on posix for an absolute cwd: file, or cwd + "/" +
\* file when file is relative, normalised.
PathResolve(cwd, file) ==
    LET resolvedPath == IF IsAbsolute(file) THEN file ELSE cwd \o PathSep \o file
    IN JoinAbsolute(NormalizeString(PathSegments(resolvedPath), <<>>))

\* Mutant of IsVendored: the test of path.isAbsolute is missing.
IsVendoredAlsoAbsolute(file) ==
    \/ StartsWith(file, <<"v", "e", "n", "d", "o", "r">> \o PathSep)
    \/ Contains(file, PathSep \o <<"v", "e", "n", "d", "o", "r">> \o PathSep)

\* The vendor test of the parser.
IsVendored(file) ==
    /\ ~IsAbsolute(file)
    /\ \/ StartsWith(file, <<"v", "e", "n", "d", "o", "r">> \o PathSep)
       \/ Contains(file, PathSep \o <<"v", "e", "n", "d", "o", "r">> \o PathSep)

\* The working directory of the runs (after fixDriveCasingInWindows, which
\* changes nothing on posix) and the file of the active editor.
Cwd == <<"/", "w">>

ActiveFileName == <<"/", "w", "/", "e", ".", "g", "o">>

\* The loop state of the callback before the first line.
ParseStart == [ret |-> <<>>, unexpectedOutput |-> FALSE, atLeastSingleMatch |-> FALSE]

\* One iteration of "for (const l of lines)" for a line that is no
\* continuation, given the result of the regular expression.
ParseRecord(acc, match, severity, useStdErr, printUnexpectedOutput, stderr) ==
    IF ~match.matched
    THEN IF printUnexpectedOutput /\ useStdErr /\ stderr # <<>>
         THEN [acc EXCEPT !.unexpectedOutput = TRUE]
         ELSE acc
    ELSE IF IsVendored(match.file)
    THEN [acc EXCEPT !.atLeastSingleMatch = TRUE]
    ELSE [acc EXCEPT
            !.atLeastSingleMatch = TRUE,
            !.ret = Append(@, [file |-> PathResolve(Cwd, match.file),
                               line |-> ToNumber(match.lineStr),
                               col |-> ToNumber(match.colStr),
                               msg |-> match.msg,
                               severity |-> severity])]

\* One iteration of "for (const l of lines)".
ParseLine(acc, l, severity, useStdErr, printUnexpectedOutput, stderr) ==
    IF Len(l) > 0 /\ l[1] = "\t" /\ Len(acc.ret) > 0
    THEN [acc EXCEPT !.ret[Len(acc.ret)].msg = @ \o <<"\n">> \o l]
    ELSE ParseRecord(acc, RegexExec(l), severity, useStdErr, printUnexpectedOutput, stderr)

\* The whole loop, from the i-th line on.
RECURSIVE ParseLines(_, _, _, _, _, _, _)
ParseLines(acc, lines, i, severity, useStdErr, printUnexpectedOutput, stderr) ==
    IF i > Len(lines) THEN acc
    ELSE ParseLines(ParseLine(acc, lines[i], severity, useStdErr,
                              printUnexpectedOutput, stderr),
                    lines, i + 1, severity, useStdErr, printUnexpectedOutput, stderr)

\* A settled promise.
Resolved(value) == [state |-> "resolved", value |-> value]

Rejected(error) == [state |-> "rejected", value |-> error]

\* Mutant of AfterLoop: the synthetic diagnostic is added whether or not the
\* tool ended with an error.
AfterLoopWithoutErr(end, err, stderr, editor) ==
    IF ~end.atLeastSingleMatch /\ end.unexpectedOutput /\ editor
    THEN Resolved(Append(end.ret, [file |-> ActiveFileName, line |-> 1, col |-> 1,
                                   msg |-> stderr, severity |-> "error"]))
    ELSE Resolved(end.ret)

\* The end of the callback, after the loop (lines 737-750).
AfterLoop(end, err, stderr, editor) ==
    IF ~end.atLeastSingleMatch /\ end.unexpectedOutput /\ editor /\ err # "none"
    THEN Resolved(Append(end.ret, [file |-> ActiveFileName, line |-> 1, col |-> 1,
                                   msg |-> stderr, severity |-> "error"]))
    ELSE Resolved(end.ret)

\* Lines 700-750 of the callback: the chosen stream is split into lines,
\* parsed, and the promise resolved with the result.
ParseAndResolve(call, err, stdout, stderr, editor) ==
    AfterLoop(ParseLines(ParseStart,
                         SplitLines(IF call.useStdErr THEN stderr ELSE stdout),
                         1, call.severity, call.useStdErr,
                         call.printUnexpectedOutput, stderr),
              err, stderr, editor)

\* Mutant of ExecFileCallback: the ENOENT test is missing.
ExecFileCallbackWithoutEnoent(call, err, stdout, stderr, editor) ==
    IF err # "none" /\ stderr # <<>> /\ ~call.useStdErr THEN Resolved(<<>>)
    ELSE ParseAndResolve(call, err, stdout, stderr, editor)

\* Mutant of ExecFileCallback: the early return for an error with something
\* on stderr and useStdErr false is missing.
ExecFileCallbackWithoutSwallow(call, err, stdout, stderr, editor) ==
    IF err = "ENOENT" THEN Resolved(<<>>)
    ELSE ParseAndResolve(call, err, stdout, stderr, editor)

\* The callback handed to cp.execFile, as the settlement it gives the
\* promise.  err is "none" (null), "ENOENT" (err.code === 'ENOENT'), "exit"
\* (a non-zero exit code) or "killed" (ended by a signal); editor tells
\* whether vscode.window.activeTextEditor is set.  Nothing inside the try
\* block throws, so the catch never rejects.
ExecFileCallback(call, err, stdout, stderr, editor) ==
    IF err = "ENOENT" THEN Resolved(<<>>)
    ELSE IF err # "none" /\ stderr # <<>> /\ ~call.useStdErr THEN Resolved(<<>>)
    ELSE ParseAndResolve(call, err, stdout, stderr, editor)

(***************************************************************************)
(* runTool: the call, the cancellation listener and the completion.        *)
(***************************************************************************)
\* toolName as passed by the callers: a named tool, or "" for the go runtime.
ToolNames == {"", "golint"}

\* What getBinPath returns: the path of a binary that exists ("located"), a
\* non-empty string naming no binary ("unlocated"), or nothing ("none").
BinPaths == {"located", "unlocated", "none"}

\* The captured texts of the model: nothing, one line of the grammar, one
\* line outside it.
TextMatch == <<"a", ".", "g", "o", ":", "1", ":", "2", ":", " ", "m", "\n">>

TextJunk == <<"o", "o", "p", "s", "\n">>

Outputs == {<<>>, TextMatch, TextJunk}

\* Mutant of ResolveCmd: the test of the go runtime path is missing.
ResolveCmdUnchecked(toolName, binPath) == [found |-> TRUE, cmd |-> binPath]

\* Lines 666-675: the command to run, or (found = FALSE) the early
\* rejection, which only the go runtime itself has.
ResolveCmd(toolName, binPath) ==
    IF toolName # "" THEN [found |-> TRUE, cmd |-> binPath]
    ELSE IF binPath = "none" THEN [found |-> FALSE, cmd |-> binPath]
    ELSE [found |-> TRUE, cmd |-> binPath]

\* cp.execFile(cmd, ...): it throws for a command that is no string, returns
\* a handle whose spawn fails (ENOENT) for a command naming no binary, and
\* otherwise a running process, unless the spawn fails all the same.
ExecFileOutcomes(cmd) ==
    CASE cmd = "none" -> {"throws"}
      [] cmd = "unlocated" -> {"failed"}
      [] OTHER -> {"running", "failed"}

\* token.onCancellationRequested(listener): nothing without a token; on a
\* token already cancelled the listener is queued for the next turn.
Register(token) ==
    IF token = 0 THEN "none"
    ELSE IF tokenCancelled[token] THEN "queued"
    ELSE "registered"

\* Mutant of ListenerKills: the test is inverted.
ListenerKillsUnset(p) == p = "unset"

\* The listener's test "if (p)" of lines 679-683: whether killTree(p.pid) is called.
ListenerKills(p) == p # "unset"

\* killTree(processId): tree-kill is asked to kill the process and its
\* descendants; whatever it answers or throws is only logged.
KillTree(calls, processId) == Append(calls, processId)

\* The cancellation listener of a run fires (history: whether the process
\* of the run was in flight at that moment).
FireListener(run) ==
    [run EXCEPT !.listener = "fired",
                !.cancelledInFlight = (run.p = "running")]

\* The place a listener registered now takes: after every listener
\* registered before it.
NextOrder ==
    1 + (CHOOSE n \in {runs[r].order : r \in DOMAIN runs} :
            \A r \in DOMAIN runs : runs[r].order <= n)

\* The listener of a run calls killTree(p.pid): that of runTool after its
\* test "if (p)", that of runGodoc (lines 1022-1024) without a test.
RunKills(run) == run.call.kind = "runGodoc" \/ ListenerKills(run.p)

\* The killTree calls after the listeners of the given runs have fired, in
\* the order of their registration.
RECURSIVE KillsAfter(_, _)
KillsAfter(calls, fired) ==
    IF fired = {} THEN calls
    ELSE LET r == CHOOSE x \in fired : \A y \in fired : runs[x].order <= runs[y].order
         IN KillsAfter(IF RunKills(runs[r]) THEN KillTree(calls, runs[r].pid)
                       ELSE calls,
                       fired \ {r})

\* runTool(args, cwd, severity, useStdErr, toolName, env, printUnexpectedOutput, token)
\* up to the return of its promise.
RunTool(r, toolName, binPath, severity, useStdErr, printUnexpectedOutput, token) ==
    /\ ~runs[r].call.made
    /\ LET call == [made |-> TRUE, kind |-> "runTool", toolName |-> toolName,
                    binPath |-> binPath,
                    severity |-> severity, useStdErr |-> useStdErr,
                    printUnexpectedOutput |-> printUnexpectedOutput, token |-> token]
           resolved == ResolveCmd(toolName, binPath)
       IN IF ~resolved.found
          THEN runs' = [runs EXCEPT ![r] =
                          [@ EXCEPT !.call = call,
                                    !.promise = Rejected("Cannot find go binary")]]
          ELSE \E outcome \in ExecFileOutcomes(resolved.cmd) :
                  runs' = [runs EXCEPT ![r] =
                      [@ EXCEPT !.call = call,
                                !.listener = Register(token),
                                !.order = IF token = 0 THEN 0 ELSE NextOrder,
                                !.execFileCalled = TRUE,
                                !.promise = IF outcome = "throws"
                                            THEN Rejected("TypeError") ELSE Pending,
                                !.p = IF outcome = "throws" THEN "unset" ELSE outcome,
                                !.pid = IF outcome = "running" THEN r ELSE 0]]
    /\ UNCHANGED <<tokenCancelled, killTreeCalls, mergeVars, convVars, versionVars, cacheVars, bufferVars>>

\* Mutant of Cancel: the listeners of every token run, not only those
\* registered on the token cancelled.
CancelEveryListener(t) ==
    /\ ~tokenCancelled[t]
    /\ tokenCancelled' = [tokenCancelled EXCEPT ![t] = TRUE]
    /\ LET fired == {r \in DOMAIN runs : runs[r].listener = "registered"}
       IN /\ runs' = [r \in DOMAIN runs |-> IF r \in fired THEN FireListener(runs[r]) ELSE runs[r]]
          /\ killTreeCalls' = KillsAfter(killTreeCalls, fired)
    /\ UNCHANGED <<mergeVars, convVars, versionVars, cacheVars, bufferVars>>

\* The holder of a token requests cancellation: every listener registered on
\* it runs, once.
Cancel(t) ==
    /\ ~tokenCancelled[t]
    /\ tokenCancelled' = [tokenCancelled EXCEPT ![t] = TRUE]
    /\ LET fired == {r \in DOMAIN runs : runs[r].listener = "registered" /\ runs[r].call.token = t}
       IN /\ runs' = [r \in DOMAIN runs |-> IF r \in fired THEN FireListener(runs[r]) ELSE runs[r]]
          /\ killTreeCalls' = KillsAfter(killTreeCalls, fired)
    /\ UNCHANGED <<mergeVars, convVars, versionVars, cacheVars, bufferVars>>

\* A listener queued on an already cancelled token runs: the one queued
\* first.
DeliverQueued(r) ==
    /\ runs[r].listener = "queued"
    /\ \A q \in DOMAIN runs : runs[q].listener = "queued" => runs[r].order <= runs[q].order
    /\ runs' = [runs EXCEPT ![r] = FireListener(@)]
    /\ killTreeCalls' = KillsAfter(killTreeCalls, {r})
    /\ UNCHANGED <<tokenCancelled, mergeVars, convVars, versionVars, cacheVars, bufferVars>>

\* The errors execFile can hand to the callback of a run: ENOENT for a failed
\* spawn; for a process, none, a non-zero exit, or its death by a signal once
\* a kill has been issued.
CallbackErrors(run) ==
    IF run.p = "failed" THEN {"ENOENT"}
    ELSE {"none", "exit"}
         \cup (IF \E i \in DOMAIN killTreeCalls : killTreeCalls[i] = run.pid
               THEN {"killed"} ELSE {})

\* The process of a run ends and execFile calls back.
Complete(r, err, stdout, stderr, editor) ==
    /\ runs[r].p \in {"running", "failed"}
    /\ runs[r].call.kind = "runTool"
    /\ err \in CallbackErrors(runs[r])
    /\ runs' = [runs EXCEPT ![r] =
                  [@ EXCEPT !.promise = ExecFileCallback(runs[r].call, err, stdout,
                                                         stderr, editor),
                            !.p = "ended",
                            !.captured = [given |-> TRUE, err |-> err, stdout |-> stdout,
                                          stderr |-> stderr, editor |-> editor]]]
    /\ UNCHANGED <<tokenCancelled, killTreeCalls, mergeVars, convVars, versionVars, cacheVars, bufferVars>>

CallRunTool ==
    \E r \in Runs, toolName \in ToolNames, binPath \in BinPaths, severity \in Severities,
       useStdErr \in BOOLEAN, printUnexpectedOutput \in BOOLEAN, token \in {0} \cup Tokens :
        RunTool(r, toolName, binPath, severity, useStdErr, printUnexpectedOutput, token)

RequestCancel == \E t \in Tokens : Cancel(t)

RunQueuedListener == \E r \in Runs : DeliverQueued(r)

ProcessEnds ==
    \E r \in Runs, err \in {"none", "ENOENT", "exit", "killed"},
       stdout \in Outputs, stderr \in Outputs, editor \in BOOLEAN :
        Complete(r, err, stdout, stderr, editor)

RunNext == CallRunTool \/ RequestCancel \/ RunQueuedListener \/ ProcessEnds

RunSpec == Init /\ [][RunNext]_vars

(***************************************************************************)
(* Properties of runTool.                                                  *)
(***************************************************************************)
\* The rejection of lines 671-673.
GoNotFound == Rejected("Cannot find go binary")

\* The stream of the captured output the callback parses.
CapturedStream(run) ==
    IF run.call.useStdErr THEN run.captured.stderr ELSE run.captured.stdout

\* C7: a run cancelled while its process was in flight never rejects, and
\* when it resolves it resolves with an empty list, whatever was captured.
C7_CancelledResolvesEmpty ==
    \A r \in Runs :
        runs[r].cancelledInFlight =>
            /\ runs[r].promise.state # "rejected"
            /\ runs[r].promise.state = "resolved" => runs[r].promise.value = <<>>

\* How often killTree has been called with a process id.
KillCount(pid) == Cardinality({i \in DOMAIN killTreeCalls : killTreeCalls[i] = pid})

\* C8: once a run's cancellation has fired while its process was in flight,
\* killTree has been called for that run's process id, exactly once.
C8_KilledExactlyOnce ==
    \A r \in Runs :
        runs[r].cancelledInFlight => (runs[r].pid = r /\ KillCount(runs[r].pid) = 1)

\* C8 witness: a run was cancelled in flight and its process has ended since.
C8_Witness ==
    \E r \in Runs :
        /\ runs[r].cancelledInFlight
        /\ runs[r].p = "ended"
        /\ KillCount(r) = 1

\* C9 (as claimed): whatever tool is requested, when getBinPath resolves
\* nothing the promise is rejected as tool-not-found and cp.execFile is not
\* called.
C9_FailsFastForEveryTool ==
    \A r \in Runs :
        (runs[r].call.made /\ runs[r].call.binPath = "none") =>
            (runs[r].promise = GoNotFound /\ ~runs[r].execFileCalled)

\* C9 (amended): the early rejection exists for the go runtime only.  With no
\* toolName and no go binary resolved the promise is rejected at once,
\* cp.execFile is not called and no listener is registered; with a toolName
\* cp.execFile is always called and the promise is never rejected as
\* tool-not-found.
C9_FailsFastForGoOnly ==
    \A r \in Runs :
        runs[r].call.made =>
            /\ (runs[r].call.toolName = "" /\ runs[r].call.binPath = "none") =>
                  /\ runs[r].promise = GoNotFound
                  /\ ~runs[r].execFileCalled
                  /\ runs[r].p = "unset"
                  /\ runs[r].listener = "none"
            /\ runs[r].call.toolName # "" =>
                  /\ runs[r].execFileCalled
                  /\ runs[r].promise # GoNotFound

\* C9 witness: runTool was called for the go runtime with a token, no go
\* binary was resolved, and the promise is rejected.
C9_Witness ==
    \E r \in Runs :
        /\ runs[r].call.made
        /\ runs[r].call.toolName = ""
        /\ runs[r].call.binPath = "none"
        /\ runs[r].call.token # 0
        /\ runs[r].promise.state = "rejected"

\* C10: when execFile reports ENOENT the promise resolves with an empty list,
\* whatever useStdErr is and whatever was captured.
C10_EnoentResolvesEmpty ==
    \A r \in Runs :
        (runs[r].captured.given /\ runs[r].captured.err = "ENOENT") =>
            runs[r].promise = Resolved(<<>>)

\* C10 witness: the callback was given ENOENT together with a captured line
\* of the grammar on the stream it would parse.
C10_Witness ==
    \E r \in Runs :
        /\ runs[r].captured.given
        /\ runs[r].captured.err = "ENOENT"
        /\ CapturedStream(runs[r]) = TextMatch
        /\ runs[r].captured.stderr = <<>>
        /\ runs[r].promise.state = "resolved"

\* C11: when the callback is given an error, something on stderr, and
\* useStdErr is false, the promise resolves with an empty list: stdout is not
\* parsed, no synthetic diagnostic is added, nothing is rejected.
C11_ErrorWithStderrResolvesEmpty ==
    \A r \in Runs :
        (/\ runs[r].captured.given
         /\ runs[r].captured.err # "none"
         /\ runs[r].captured.stderr # <<>>
         /\ ~runs[r].call.useStdErr) =>
            runs[r].promise = Resolved(<<>>)

\* C11 witness: the tool exited with an error, stderr held text, stdout held
\* a line of the grammar, strict reporting was asked for with an editor
\* open, useStdErr was false, and the promise resolved.
C11_Witness ==
    \E r \in Runs :
        /\ runs[r].captured.given
        /\ runs[r].captured.err = "exit"
        /\ runs[r].captured.stderr = TextJunk
        /\ runs[r].captured.stdout = TextMatch
        /\ runs[r].captured.editor
        /\ runs[r].call.printUnexpectedOutput
        /\ ~runs[r].call.useStdErr
        /\ runs[r].promise.state = "resolved"

(***************************************************************************)
(* The parser of the callback on outputs of several lines.  The runs are   *)
(* the runs of runTool; the captured output is drawn from the texts of at  *)
(* most MaxOutputLines lines.                                              *)
(***************************************************************************)
MaxOutputLines == 2

VendorName == <<"v", "e", "n", "d", "o", "r">>

\* "a:1: m": a line of the grammar with a relative path.
LineRelative == <<"a", ":", "1", ":", " ", "m">>

\* "vendor/a:1: m": vendor as the first segment.
LineVendorFirst == VendorName \o <<"/", "a", ":", "1", ":", " ", "m">>

\* "p/vendor/a:1: m": vendor nested.
LineVendorNested == <<"p", "/">> \o VendorName \o <<"/", "a", ":", "1", ":", " ", "m">>

\* "/vendor/a:1: n": an absolute path through a vendor directory.
LineVendorAbsolute == <<"/">> \o VendorName \o <<"/", "a", ":", "1", ":", " ", "n">>

\* "p/vendor:2: k": a file named vendor.
LineVendorFile == <<"p", "/">> \o VendorName \o <<":", "2", ":", " ", "k">>

\* "./a:1: m": a relative path as go build and go vet print it.
LineDotRelative == <<".", "/", "a", ":", "1", ":", " ", "m">>

\* "\td": a line that starts with a tab.
LineTab == <<"\t", "d">>

\* "x": a line outside the grammar.
LineJunk == <<"x">>

OutputLines ==
    {LineRelative, LineDotRelative, LineVendorFirst, LineVendorNested,
     LineVendorAbsolute, LineVendorFile, LineTab, LineJunk}

\* lines.join('\n')
RECURSIVE JoinLines(_)
JoinLines(lines) ==
    IF Len(lines) = 0 THEN <<>>
    ELSE IF Len(lines) = 1 THEN lines[1]
    ELSE lines[1] \o <<"\n">> \o JoinLines(Tail(lines))

\* "a:1: m", then "vendor/a:1: m", then "\td": a continuation line after a
\* line of the grammar that is dropped as vendored.
TextVendorContinuation == JoinLines(<<LineRelative, LineVendorFirst, LineTab>>)

\* The texts a tool writes: at most MaxOutputLines lines, and the text above.
OutputTexts ==
    {JoinLines(ls) : ls \in UNION {[1..n -> OutputLines] : n \in 0..MaxOutputLines}}
    \cup {TextVendorContinuation}

\* What the callback is given as (stdout, stderr): a text on one stream,
\* with nothing or a line outside the grammar on the other.
OutputPairs ==
    {<<t, e>> : t \in OutputTexts, e \in {<<>>, LineJunk}}
    \cup {<<<<>>, t>> : t \in OutputTexts}

\* runTool is called for a tool that is found, without a token.
ParseCall ==
    \E r \in Runs, useStdErr \in BOOLEAN, printUnexpectedOutput \in BOOLEAN,
       severity \in Severities :
        RunTool(r, "golint", "located", severity, useStdErr, printUnexpectedOutput, 0)

\* The process ends and the callback is given its output.
ParseEnds ==
    \E r \in Runs, err \in {"none", "ENOENT", "exit"}, pair \in OutputPairs,
       editor \in BOOLEAN :
        Complete(r, err, pair[1], pair[2], editor)

ParseNext == ParseCall \/ ParseEnds

ParseSpec == Init /\ [][ParseNext]_vars

(***************************************************************************)
(* Properties of the parser.                                               *)
(***************************************************************************)
\* str.split(sep) for a separator of one character.
RECURSIVE SplitOn(_, _)
SplitOn(str, sep) ==
    LET n == IndexFrom(str, sep, 1)
    IN IF n > Len(str) THEN <<str>>
       ELSE <<SubSeq(str, 1, n - 1)>> \o SplitOn(SubSeq(str, n + 1, Len(str)), sep)

\* The lines the callback loops over for a run that has ended.
CapturedLines(run) == SplitLines(CapturedStream(run))

\* A run whose callback reached the loop over the lines: it was given its
\* output, no ENOENT, and not an error with stderr text and useStdErr false.
Parsed(run) ==
    /\ run.captured.given
    /\ run.captured.err # "ENOENT"
    /\ ~(run.captured.err # "none" /\ run.captured.stderr # <<>> /\ ~run.call.useStdErr)

\* No line of the output is a line of the grammar.
NoLineMatches(lines) == \A i \in DOMAIN lines : ~RegexExec(lines[i]).matched

\* The synthetic diagnostic: line 1, column 1 of the active document, the
\* whole of the raw text as its message.
Synthetic(text) ==
    [file |-> ActiveFileName, line |-> 1, col |-> 1, msg |-> text, severity |-> "error"]

\* C12 (as claimed): when no line of the output matched and the caller asked
\* for printUnexpectedOutput, the result is exactly the one synthetic
\* diagnostic carrying the raw text.
C12_StrictAlwaysSynthetic ==
    \A r \in Runs :
        (/\ Parsed(runs[r])
         /\ NoLineMatches(CapturedLines(runs[r]))
         /\ runs[r].call.printUnexpectedOutput) =>
            runs[r].promise = Resolved(<<Synthetic(CapturedStream(runs[r]))>>)

\* The conditions under which the callback adds the synthetic diagnostic.
SyntheticDue(run) ==
    /\ run.call.printUnexpectedOutput
    /\ run.call.useStdErr
    /\ run.captured.stderr # <<>>
    /\ run.captured.err # "none"
    /\ run.captured.editor

\* How many lines of the output are lines of the grammar.
MatchingLines(lines) == Cardinality({i \in DOMAIN lines : RegexExec(lines[i]).matched})

\* C12 (amended): lines outside the grammar give no diagnostic (there are
\* never more diagnostics than matching lines); when no line of the output
\* matched, the result is exactly the one synthetic diagnostic carrying
\* stderr if printUnexpectedOutput and useStdErr are set, stderr is not
\* empty, the tool ended with an error and an editor is active, and
\* otherwise the result is empty.
C12_SyntheticOnlyForFailedStderr ==
    \A r \in Runs :
        Parsed(runs[r]) =>
            /\ runs[r].promise.state = "resolved"
            /\ IF NoLineMatches(CapturedLines(runs[r]))
               THEN runs[r].promise.value =
                        IF SyntheticDue(runs[r])
                        THEN <<Synthetic(runs[r].captured.stderr)>>
                        ELSE <<>>
               ELSE Len(runs[r].promise.value) <= MatchingLines(CapturedLines(runs[r]))

\* C12 witness: two lines outside the grammar on stderr, strict reporting,
\* an error and an editor: the promise resolved with the synthetic
\* diagnostic.
C12_Witness ==
    \E r \in Runs :
        /\ Parsed(runs[r])
        /\ SyntheticDue(runs[r])
        /\ runs[r].captured.stderr = JoinLines(<<LineJunk, LineTab>>)
        /\ runs[r].promise = Resolved(<<Synthetic(runs[r].captured.stderr)>>)

\* C13: a line that starts with a tab and follows a line of the grammar is
\* no record of its own: the result is the one diagnostic of the first line,
\* its message followed by a newline and the second line without its tab.
C13_ContinuationWithoutTab ==
    \A r \in Runs :
        (/\ Parsed(runs[r])
         /\ CapturedLines(runs[r]) = <<LineRelative, LineTab>>) =>
            /\ Len(runs[r].promise.value) = 1
            /\ runs[r].promise.value[1].msg =
                  RegexExec(LineRelative).msg \o <<"\n">> \o Tail(LineTab)

\* The segments of a path: file.split('/').
Segments(file) == SplitOn(file, "/")

\* The path goes through a directory named vendor: a segment before the
\* last one is "vendor".
ThroughVendor(file) ==
    \E i \in 1..(Len(Segments(file)) - 1) : Segments(file)[i] = VendorName

\* A line that gives a diagnostic of its own: a line of the grammar whose
\* path is absolute or goes through no vendor directory.
IsKept(l) ==
    /\ RegexExec(l).matched
    /\ (IsAbsolute(RegexExec(l).file) \/ ~ThroughVendor(RegexExec(l).file))

\* No line of the output starts with a tab.
NoTabLine(lines) == \A i \in DOMAIN lines : lines[i] = <<>> \/ lines[i][1] # "\t"

\* The path has a segment named vendor, the last one included.
HasVendorSegment(file) ==
    \E i \in DOMAIN Segments(file) : Segments(file)[i] = VendorName

\* A line that gives a diagnostic of its own as the claim has it: a line of
\* the grammar whose path is absolute or has no segment named vendor.
IsKeptAsClaimed(l) ==
    /\ RegexExec(l).matched
    /\ (IsAbsolute(RegexExec(l).file) \/ ~HasVendorSegment(RegexExec(l).file))

\* C14 (as claimed): in an output with a matching line and no continuation
\* line, the diagnostics are, in the order of the lines, one for each
\* matching line whose path is absolute or has no segment named vendor; a
\* matching line with a relative path that has a segment named vendor, in
\* any place, gives none.
C14_AnyVendorSegmentDropped ==
    \A r \in Runs :
        (/\ Parsed(runs[r])
         /\ NoTabLine(CapturedLines(runs[r]))
         /\ ~NoLineMatches(CapturedLines(runs[r]))) =>
            LET kept == SelectSeq(CapturedLines(runs[r]), IsKeptAsClaimed)
                ret == runs[r].promise.value
            IN /\ Len(ret) = Len(kept)
               /\ \A i \in DOMAIN kept :
                     /\ ret[i].file = PathResolve(Cwd, RegexExec(kept[i]).file)
                     /\ ret[i].msg = RegexExec(kept[i]).msg

\* The lines that give a diagnostic of their own, in order: the kept lines,
\* but for a line that starts with a tab and comes after one of them (a
\* continuation line).
RECURSIVE OwnLines(_, _)
OwnLines(lines, own) ==
    IF lines = <<>> THEN own
    ELSE OwnLines(Tail(lines),
                  IF own # <<>> /\ Head(lines) # <<>> /\ Head(lines)[1] = "\t" THEN own
                  ELSE IF IsKept(Head(lines)) THEN Append(own, Head(lines))
                  ELSE own)

\* C14 (amended): in an output with a matching line the diagnostics are, in
\* the order of the lines, one for each matching line that is no
\* continuation line and whose path is absolute or goes through no directory
\* named vendor (a relative file that is itself named vendor is kept); a
\* matching line with a relative path through a vendor directory, as the
\* first segment or nested, gives none.  Each diagnostic has the resolved
\* file, the line number and the message of its line, the message followed
\* only by what continuation lines add.
C14_VendorLinesDropped ==
    \A r \in Runs :
        (/\ Parsed(runs[r])
         /\ ~NoLineMatches(CapturedLines(runs[r]))) =>
            LET kept == OwnLines(CapturedLines(runs[r]), <<>>)
                ret == runs[r].promise.value
            IN /\ Len(ret) = Len(kept)
               /\ \A i \in DOMAIN kept :
                     /\ ret[i].file = PathResolve(Cwd, RegexExec(kept[i]).file)
                     /\ ret[i].line = ToNumber(RegexExec(kept[i]).lineStr)
                     /\ StartsWith(ret[i].msg, RegexExec(kept[i]).msg)
                     /\ NoTabLine(CapturedLines(runs[r])) =>
                           ret[i].msg = RegexExec(kept[i]).msg

\* C14 witness: a line with a relative path through a vendor directory
\* followed by a line whose relative file is itself named vendor: one
\* diagnostic, of the second line.
C14_Witness ==
    \E r \in Runs :
        /\ Parsed(runs[r])
        /\ CapturedLines(runs[r]) = <<LineVendorNested, LineVendorFile>>
        /\ Len(runs[r].promise.value) = 1
        /\ runs[r].promise.value[1].file = <<"/", "w", "/", "p", "/">> \o VendorName
        /\ runs[r].promise.value[1].msg = <<"k">>

\* A line that starts with a tab.
IsTabLine(l) == l # <<>> /\ l[1] = "\t"

\* The message of a diagnostic with the continuation lines that belong to
\* it: the lines from the i-th on that start with a tab, up to the next line
\* of the grammar.
RECURSIVE WithContinuations(_, _, _)
WithContinuations(lines, i, msg) ==
    IF i > Len(lines) THEN msg
    ELSE IF IsTabLine(lines[i])
    THEN WithContinuations(lines, i + 1, msg \o <<"\n">> \o lines[i])
    ELSE IF RegexExec(lines[i]).matched THEN msg
    ELSE WithContinuations(lines, i + 1, msg)

\* How many of the first j lines give a diagnostic of their own.
KeptUpTo(lines, j) == Cardinality({i \in 1..j : IsKept(lines[i])})

\* C24: a continuation line is appended only to the diagnostic of the
\* nearest line of the grammar before it: every diagnostic carries the
\* message of its line followed by the continuation lines between that line
\* and the next line of the grammar, and a continuation line after a line
\* dropped as vendored is appended to nothing.
C24_ContinuationStaysWithItsLine ==
    \A r \in Runs :
        (Parsed(runs[r]) /\ ~NoLineMatches(CapturedLines(runs[r]))) =>
            LET lines == CapturedLines(runs[r])
                ret == runs[r].promise.value
            IN /\ Len(ret) = KeptUpTo(lines, Len(lines))
               /\ \A j \in DOMAIN lines :
                     IsKept(lines[j]) =>
                         ret[KeptUpTo(lines, j)].msg =
                             WithContinuations(lines, j + 1, RegexExec(lines[j]).msg)

(***************************************************************************)
(* makeMemoizedByteOffsetConverter.  A buffer is a sequence of bytes of    *)
(* well-formed UTF-8: "1", "2", "3", "4" is the first byte of a character  *)
(* encoded in that many bytes, "c" a continuation byte.                    *)
(***************************************************************************)
MaxChars == 2

MaxSamples == 4

Widths == {1, 2, 3, 4}

LeadByte(w) == CASE w = 1 -> "1" [] w = 2 -> "2" [] w = 3 -> "3" [] w = 4 -> "4"

WidthOf(byte) == CASE byte = "1" -> 1 [] byte = "2" -> 2 [] byte = "3" -> 3 [] byte = "4" -> 4

\* The UTF-8 encoding of the characters of the given widths.
RECURSIVE Encode(_)
Encode(ws) ==
    IF ws = <<>> THEN <<>>
    ELSE <<LeadByte(ws[1])>> \o [i \in 1..(ws[1] - 1) |-> "c"] \o Encode(Tail(ws))

Buffers == {Encode(ws) : ws \in UNION {[1..n -> Widths] : n \in 0..MaxChars}}

\* How many continuation bytes follow the first byte of bytes, at most max.
RECURSIVE Continuations(_, _)
Continuations(bytes, max) ==
    IF max = 0 \/ Len(bytes) < 2 \/ bytes[2] # "c" THEN 0
    ELSE 1 + Continuations(Tail(bytes), max - 1)

\* Mutant of Utf8Length: the bytes are counted, not the characters.
Utf8LengthInBytes(bytes) == Len(bytes)

\* The length (in UTF-16 code units) of the string the bytes decode to: one
\* unit for a character of up to three bytes, two for one of four bytes, and
\* one replacement character for each stray continuation byte and for a
\* sequence cut short.
RECURSIVE Utf8Length(_)
Utf8Length(bytes) ==
    IF bytes = <<>> THEN 0
    ELSE IF bytes[1] = "c" THEN 1 + Utf8Length(Tail(bytes))
    ELSE LET w == WidthOf(bytes[1])
             k == Continuations(bytes, w - 1)
         IN IF k = w - 1
            THEN (IF w = 4 THEN 2 ELSE 1) + Utf8Length(SubSeq(bytes, w + 1, Len(bytes)))
            ELSE 1 + Utf8Length(SubSeq(bytes, k + 2, Len(bytes)))

\* buffer.toString('utf8', start, end) as the bytes it decodes.
Slice(buffer, start, end) == SubSeq(buffer, start + 1, end)

\* new Node(0, 0): 0 bytes are 0 characters.
DefaultValue == [key |-> 0, value |-> 0]

\* new NearestNeighborDict(defaultValue, NUMERIC_DISTANCE_FUNCTION)
NewMemo == (DefaultValue.key :> DefaultValue.value)

Distance(a, b) == IF a >= b THEN a - b ELSE b - a

\* memo.getNearest(key): a sample whose key is at the least distance from
\* key; either one when two are equally near.
GetNearest(memo, key) ==
    {[key |-> k, value |-> memo[k]] :
        k \in {k \in DOMAIN memo :
                 \A j \in DOMAIN memo : Distance(k, key) <= Distance(j, key)}}

\* memo.insert(key, value)
Insert(memo, key, value) ==
    [k \in DOMAIN memo \cup {key} |-> IF k = key THEN value ELSE memo[k]]

\* Mutant of CharDelta: the delta of a span before the sample is not negated.
CharDeltaUnsigned(buffer, nearest, byteOffset) ==
    IF byteOffset - nearest.key > 0
    THEN Utf8Length(Slice(buffer, nearest.key, byteOffset))
    ELSE Utf8Length(Slice(buffer, byteOffset, nearest.key))

\* Lines 890-895: the characters between the sample and the offset, signed.
CharDelta(buffer, nearest, byteOffset) ==
    IF byteOffset - nearest.key > 0
    THEN Utf8Length(Slice(buffer, nearest.key, byteOffset))
    ELSE 0 - Utf8Length(Slice(buffer, byteOffset, nearest.key))

\* Mutant of Convert: the computed sample is not inserted.
ConvertWithoutInsert(buffer, nearest, byteOffset) ==
    IF byteOffset - nearest.key = 0
    THEN [value |-> nearest.value, decoded |-> 0, insert |-> FALSE]
    ELSE [value |-> nearest.value + CharDelta(buffer, nearest, byteOffset),
          decoded |-> Distance(byteOffset, nearest.key),
          insert |-> FALSE]

\* The returned function, called from the sample getNearest gave: what it
\* returns, how many bytes it hands to the decoder, and whether it inserts.
Convert(buffer, nearest, byteOffset) ==
    IF byteOffset - nearest.key = 0
    THEN [value |-> nearest.value, decoded |-> 0, insert |-> FALSE]
    ELSE [value |-> nearest.value + CharDelta(buffer, nearest, byteOffset),
          decoded |-> Distance(byteOffset, nearest.key),
          insert |-> TRUE]

\* makeMemoizedByteOffsetConverter(buffer)
MakeConverter(buffer) ==
    /\ ~converter.made
    /\ converter' = [made |-> TRUE, buffer |-> buffer, memo |-> NewMemo]
    /\ UNCHANGED <<lastQuery, mergeVars, runVars, versionVars, cacheVars, bufferVars>>

\* A call of the returned function.
Query(byteOffset) ==
    /\ converter.made
    /\ byteOffset \in DOMAIN converter.memo
          \/ Cardinality(DOMAIN converter.memo) < MaxSamples
    /\ \E nearest \in GetNearest(converter.memo, byteOffset) :
          LET result == Convert(converter.buffer, nearest, byteOffset)
          IN /\ converter' =
                    [converter EXCEPT !.memo =
                        IF result.insert THEN Insert(@, byteOffset, result.value) ELSE @]
             /\ lastQuery' = [made |-> TRUE, byteOffset |-> byteOffset,
                              nearest |-> nearest, decoded |-> result.decoded,
                              value |-> result.value]
    /\ UNCHANGED <<mergeVars, runVars, versionVars, cacheVars, bufferVars>>

Make == \E buffer \in Buffers : MakeConverter(buffer)

\* The offsets asked for lie within the buffer.
Ask ==
    /\ converter.made
    /\ \E byteOffset \in 0..Len(converter.buffer) : Query(byteOffset)

ConvNext == Make \/ Ask

ConvSpec == Init /\ [][ConvNext]_vars

(***************************************************************************)
(* Properties of the converter.                                            *)
(***************************************************************************)
\* The byte offsets at which a character of the buffer starts or the buffer
\* ends.
Boundaries(buffer) ==
    {b \in 0..Len(buffer) : b = Len(buffer) \/ buffer[b + 1] # "c"}

\* The UTF-16 code units of the characters encoded in the first b bytes: one
\* for each first byte, one more for each first byte of a four-byte
\* character.
CharsBefore(buffer, b) ==
    Cardinality({i \in 1..b : buffer[i] # "c"}) + Cardinality({i \in 1..b : buffer[i] = "4"})

\* Every offset asked for so far lies on a character boundary.
OnBoundaries ==
    converter.made /\ DOMAIN converter.memo \subseteq Boundaries(converter.buffer)

\* C16: as long as the offsets asked for lie on character boundaries, every
\* sample (b, c) of the memo and every value returned has c = the number of
\* UTF-16 code units in the first b bytes, whatever the order of the
\* queries; and the sample of offset 0 is (0, 0) at every point.
C16_SamplesAreExact ==
    /\ converter.made => converter.memo[0] = 0
    /\ OnBoundaries =>
          /\ \A b \in DOMAIN converter.memo :
                converter.memo[b] = CharsBefore(converter.buffer, b)
          /\ lastQuery.made =>
                lastQuery.value = CharsBefore(converter.buffer, lastQuery.byteOffset)

\* C16 witness: over a buffer holding a four-byte character, the last query
\* went backwards from a sample behind a multi-byte character, and the memo
\* holds three samples on boundaries.
C16_Witness ==
    /\ OnBoundaries
    /\ \E i \in DOMAIN converter.buffer : converter.buffer[i] = "4"
    /\ Cardinality(DOMAIN converter.memo) >= 3
    /\ lastQuery.made
    /\ lastQuery.nearest.key - lastQuery.byteOffset > 1
    /\ lastQuery.value > 0
    /\ lastQuery.value < lastQuery.nearest.value

\* C17 (amended): as long as the offsets asked for lie on character
\* boundaries, the converter is monotonic: of two offsets asked for, the lower has the
\* value that is not higher, in whatever order they were asked.
C17_Monotonic ==
    OnBoundaries =>
        \A b1, b2 \in DOMAIN converter.memo :
            b1 < b2 => converter.memo[b1] <= converter.memo[b2]

\* C17 (as claimed): the converter is monotonic for all byte offsets asked
\* for, in whatever order.
C17_MonotonicEverywhere ==
    converter.made =>
        \A b1, b2 \in DOMAIN converter.memo :
            b1 < b2 => converter.memo[b1] <= converter.memo[b2]

\* C17 witness: the lower of two offsets on boundaries was asked for after
\* the higher, from the higher one's sample, and has the lower value.
C17_Witness ==
    /\ OnBoundaries
    /\ lastQuery.made
    /\ lastQuery.nearest.key > lastQuery.byteOffset
    /\ lastQuery.byteOffset > 0
    /\ converter.memo[lastQuery.byteOffset] < converter.memo[lastQuery.nearest.key]

\* The distance from an offset to the nearest sample of the memo.
NearestDistance(memo, b) ==
    CHOOSE d \in 0..b :
        /\ \E k \in DOMAIN memo : Distance(k, b) = d
        /\ \A k \in DOMAIN memo : Distance(k, b) >= d

\* C18: a query at an offset already in the memo decodes nothing, leaves the
\* memo as it is and returns the stored value; a query at a new offset
\* decodes as many bytes as lie between the offset and the nearest sample,
\* and inserts exactly one sample, keyed by the offset and holding the value
\* returned.
C18_QueryDecodesToNearestSample ==
    [][(converter.made /\ lastQuery' # lastQuery) =>
          LET b == lastQuery'.byteOffset
              memo == converter.memo
          IN IF b \in DOMAIN memo
             THEN /\ converter' = converter
                  /\ lastQuery'.decoded = 0
                  /\ lastQuery'.value = memo[b]
             ELSE /\ DOMAIN converter'.memo = DOMAIN memo \cup {b}
                  /\ \A k \in DOMAIN memo : converter'.memo[k] = memo[k]
                  /\ converter'.memo[b] = lastQuery'.value
                  /\ lastQuery'.decoded = NearestDistance(memo, b)]_vars

\* C18 witness: the last query started from a sample other than that of
\* offset 0, decoded fewer bytes than lie before its offset, and the memo
\* holds its sample.
C18_Witness ==
    /\ lastQuery.made
    /\ lastQuery.nearest.key > 0
    /\ lastQuery.decoded > 0
    /\ lastQuery.decoded < lastQuery.byteOffset
    /\ lastQuery.byteOffset \in DOMAIN converter.memo

(***************************************************************************)
(* GoVersion.  Strings are sequences of one-character strings.             *)
(***************************************************************************)
\* [a-zA-Z0-9]
IsAlphaNumeric(c) == IsWord(c) /\ c # "_"

\* The index after the end of the line that holds index i.
LineEnd(str, i) ==
    LET ends == {j \in i..Len(str) : ~IsDot(str[j])}
    IN IF ends = {} THEN Len(str) + 1 ELSE CHOOSE j \in ends : \A k \in ends : j <= k

\* No match of a regular expression (null), no sv (undefined).
Null == [ok |-> FALSE]

ReleasePrefix == <<"g", "o", " ", "v", "e", "r", "s", "i", "o", "n", " ", "g", "o">>

DevelPrefix == <<"g", "o", " ", "v", "e", "r", "s", "i", "o", "n", " ", "d", "e", "v", "e", "l", " ", "+">>

\* /go version go(\d.\d+).*/.exec(version): the leftmost place where the
\* prefix is followed by a digit, any character and a digit; group 0 runs to
\* the end of the line.
MatchesRelease(version) ==
    LET n == Len(ReleasePrefix)
        at == {i \in 1..Len(version) :
                 /\ i + n + 2 <= Len(version)
                 /\ SubSeq(version, i, i + n - 1) = ReleasePrefix
                 /\ IsDigit(version[i + n])
                 /\ IsDot(version[i + n + 1])
                 /\ IsDigit(version[i + n + 2])}
    IN IF at = {} THEN Null
       ELSE LET i == CHOOSE i \in at : \A j \in at : i <= j
            IN [ok |-> TRUE, all |-> SubSeq(version, i, LineEnd(version, i) - 1)]

\* /go version devel \+(.[a-zA-Z0-9]+).*/.exec(version)
MatchesDevel(version) ==
    LET n == Len(DevelPrefix)
        at == {i \in 1..Len(version) :
                 /\ i + n + 1 <= Len(version)
                 /\ SubSeq(version, i, i + n - 1) = DevelPrefix
                 /\ IsDot(version[i + n])
                 /\ IsAlphaNumeric(version[i + n + 1])}
    IN IF at = {} THEN Null
       ELSE LET i == CHOOSE i \in at : \A j \in at : i <= j
            IN [ok |-> TRUE, all |-> SubSeq(version, i, LineEnd(version, i) - 1)]

\* A component of a version as semver parses it: a number without a leading
\* zero.
NumericIdentifier(digits) == Len(digits) = 1 \/ digits[1] # "0"

\* The run of digits that starts at index i when it is one \d{1,16} can
\* take whole, that is, has at most 16 digits; <<>> otherwise.
ComponentAt(str, i) ==
    LET digits == SubSeq(str, i, RunEnd(str, i, "d") - 1)
    IN IF Len(digits) \in 1..16 THEN digits ELSE <<>>

\* (?:\.(\d{1,16}))? at index i: the digits after the dot, or <<>> (the
\* group is undefined) when no dot is there or the run after it is no
\* component.
NextComponent(str, i) ==
    IF i + 1 <= Len(str) /\ str[i] = "." THEN ComponentAt(str, i + 1) ELSE <<>>

\* The index after a component that follows a dot at index i.
AfterComponent(str, i, component) == IF component = <<>> THEN i ELSE i + 1 + Len(component)

\* Number.MAX_SAFE_INTEGER
MaxSafeInteger ==
    <<"9", "0", "0", "7", "1", "9", "9", "2", "5", "4", "7", "4", "0", "9", "9", "1">>

\* The order of two numbers written without leading zeros: -1, 0 or 1.
CompareIdentifiers(a, b) ==
    IF Len(a) # Len(b) THEN (IF Len(a) < Len(b) THEN -1 ELSE 1)
    ELSE IF a = b THEN 0
    ELSE LET i == CHOOSE i \in DOMAIN a : a[i] # b[i] /\ \A j \in 1..(i - 1) : a[j] = b[j]
         IN IF DigitValue(a[i]) < DigitValue(b[i]) THEN -1 ELSE 1

\* A component the SemVer constructor takes: a number without a leading
\* zero that is no more than MAX_SAFE_INTEGER.
IsComponent(digits) ==
    NumericIdentifier(digits) /\ CompareIdentifiers(digits, MaxSafeInteger) <= 0

\* match[3] || '0'
OrZero(digits) == IF digits = <<>> THEN <<"0">> ELSE digits

\* The SemVer of the given components (a missing one is 0), or null when
\* one has a leading zero or is too large.  The components are kept as
\* their digits.
SemVerOf(major, minor, patch) ==
    IF IsComponent(major) /\ IsComponent(OrZero(minor)) /\ IsComponent(OrZero(patch))
    THEN [ok |-> TRUE, major |-> major, minor |-> OrZero(minor), patch |-> OrZero(patch)]
    ELSE Null

\* The rest of semver.coerce once the major component is found at index i.
CoerceAt(str, i, major) ==
    LET minor == NextComponent(str, i + Len(major))
        j == AfterComponent(str, i + Len(major), minor)
        patch == IF minor = <<>> THEN <<>> ELSE NextComponent(str, j)
    IN SemVerOf(major, minor, patch)

\* semver.coerce(version), by the expression
\*   (^|[^\d])(\d{1,16})(?:\.(\d{1,16}))?(?:\.(\d{1,16}))?(?:$|[^\d])
\* the first run of at most 16 digits that stands between non-digits and up
\* to two dotted runs after it, as major.minor.patch with 0 for what is
\* missing; a longer run is passed over; null without such a run.
Coerce(version) ==
    LET starts == {i \in 1..Len(version) :
                     /\ IsDigit(version[i])
                     /\ i = 1 \/ ~IsDigit(version[i - 1])
                     /\ ComponentAt(version, i) # <<>>}
    IN IF starts = {} THEN Null
       ELSE LET i == CHOOSE i \in starts : \A j \in starts : i <= j
            IN CoerceAt(version, i, ComponentAt(version, i))

\* semver.compare on versions without prerelease tags: -1, 0 or 1.
SemverCompare(a, b) ==
    IF a.major # b.major THEN CompareIdentifiers(a.major, b.major)
    ELSE IF a.minor # b.minor THEN CompareIdentifiers(a.minor, b.minor)
    ELSE CompareIdentifiers(a.patch, b.patch)

\* new GoVersion(binaryPath, version): the fields sv and isDevel (false
\* stands for undefined).
NewGoVersion(version) ==
    LET matchesRelease == MatchesRelease(version)
        matchesDevel == MatchesDevel(version)
    IN IF matchesRelease.ok
       THEN [made |-> TRUE, sv |-> Coerce(matchesRelease.all), isDevel |-> FALSE]
       ELSE IF matchesDevel.ok
       THEN [made |-> TRUE, sv |-> Null, isDevel |-> TRUE]
       ELSE [made |-> TRUE, sv |-> Null, isDevel |-> FALSE]

\* GoVersion.isValid()
isValid(this) == this.sv.ok \/ this.isDevel

\* Mutant of lt: an equal version counts as lower.
ltOrEqual(this, version) ==
    IF this.isDevel \/ ~this.sv.ok THEN FALSE
    ELSE LET v == Coerce(version)
         IN IF ~v.ok THEN FALSE ELSE SemverCompare(this.sv, v) <= 0

\* GoVersion.lt(version)
lt(this, version) ==
    IF this.isDevel \/ ~this.sv.ok THEN FALSE
    ELSE LET v == Coerce(version)
         IN IF ~v.ok THEN FALSE ELSE SemverCompare(this.sv, v) < 0

\* Mutant of gt: the argument is coerced before the instance is looked at.
gtArgumentFirst(this, version) ==
    LET v == Coerce(version)
    IN IF ~v.ok THEN FALSE
       ELSE IF this.isDevel \/ ~this.sv.ok THEN TRUE
       ELSE SemverCompare(this.sv, v) > 0

\* GoVersion.gt(version)
gt(this, version) ==
    IF this.isDevel \/ ~this.sv.ok THEN TRUE
    ELSE LET v == Coerce(version)
         IN IF ~v.ok THEN FALSE ELSE SemverCompare(this.sv, v) > 0

\* The outputs of "go version" the model constructs a GoVersion from; one
\* has a minor of 17 digits, which semver passes over.
VersionTexts ==
    {<<"g", "o", " ", "v", "e", "r", "s", "i", "o", "n", " ", "g", "o", "1", ".", "1", "8", ".", "3", " ", "d", "a", "r", "w", "i", "n", "/", "a", "m", "d", "6", "4">>,
     <<"g", "o", " ", "v", "e", "r", "s", "i", "o", "n", " ", "g", "o", "1", ".", "9">>,
     <<"g", "o", " ", "v", "e", "r", "s", "i", "o", "n", " ", "g", "o", "1", ".", "1", "7", " ", "l", "i", "n", "u", "x">>,
     <<"g", "o", " ", "v", "e", "r", "s", "i", "o", "n", " ", "g", "o", "2", ".", "0", ".", "1">>,
     <<"g", "o", " ", "v", "e", "r", "s", "i", "o", "n", " ", "g", "o", "1", ".", "1", "9", "r", "c", "1">>,
     <<"g", "o", " ", "v", "e", "r", "s", "i", "o", "n", " ", "d", "e", "v", "e", "l", " ", "+", "a", "b", "c", "1", "2", "3", " ", "x">>,
     <<"x">>,
     <<>>,
     <<" ", "g", "o", " ", "v", "e", "r", "s", "i", "o", "n", " ", "g", "o", "1", "1", "8">>,
     <<"g", "o", " ", "v", "e", "r", "s", "i", "o", "n", " ", "g", "o", "x", ".", "1">>,
     <<"g", "o", " ", "v", "e", "r", "s", "i", "o", "n", " ", "g", "o", "1", ".", "0", "0", "0", "0", "0", "0", "0", "0", "0", "0", "0", "0", "0", "0", "0", "0", "1">>,
     <<"g", "o", " ", "v", "e", "r", "s", "i", "o", "n", " ", "g", "o", "1", ".", "4", " ", "g", "o", " ", "v", "e", "r", "s", "i", "o", "n", " ", "d", "e", "v", "e", "l", " ", "+", "a", "b">>}

\* The arguments the model compares with; the last starts with a run of 17
\* digits, so that its version is 2.0.0.
VersionArguments ==
    {<<"1", ".", "1", "7">>,
     <<"1", ".", "1", "9">>,
     <<"1", ".", "1", "8", ".", "3">>,
     <<"1", ".", "1", "8">>,
     <<"x">>,
     <<>>,
     <<"2">>,
     <<"v", "1", ".", "9">>,
     <<"1", ".", "1", "9", ".", "0">>,
     <<"0", "0", "0", "0", "0", "0", "0", "0", "0", "0", "0", "0", "0", "0", "0", "0", "1", ".", "2">>}

\* new GoVersion(binaryPath, version)
Construct(version) ==
    /\ ~goVersion.made
    /\ goVersion' = NewGoVersion(version)
    /\ UNCHANGED <<lastComparison, mergeVars, runVars, convVars, cacheVars, bufferVars>>

\* goVersion.lt(version)
CallLt(version) ==
    /\ goVersion.made
    /\ lastComparison' = [made |-> TRUE, op |-> "lt", version |-> version,
                          result |-> lt(goVersion, version)]
    /\ UNCHANGED <<goVersion, mergeVars, runVars, convVars, cacheVars, bufferVars>>

\* goVersion.gt(version)
CallGt(version) ==
    /\ goVersion.made
    /\ lastComparison' = [made |-> TRUE, op |-> "gt", version |-> version,
                          result |-> gt(goVersion, version)]
    /\ UNCHANGED <<goVersion, mergeVars, runVars, convVars, cacheVars, bufferVars>>

ConstructVersion == \E version \in VersionTexts : Construct(version)

CompareLt == \E version \in VersionArguments : CallLt(version)

CompareGt == \E version \in VersionArguments : CallGt(version)

VersionNext == ConstructVersion \/ CompareLt \/ CompareGt

VersionSpec == Init /\ [][VersionNext]_vars

(***************************************************************************)
(* Properties of GoVersion.                                                *)
(***************************************************************************)
\* C19: for an invalid GoVersion, lt returns false for every argument, and
\* gt returns false when its argument does not parse as a version and true
\* when it does.
C19_InvalidGtFollowsArgument ==
    (goVersion.made /\ ~isValid(goVersion) /\ lastComparison.made) =>
        IF lastComparison.op = "lt"
        THEN lastComparison.result = FALSE
        ELSE lastComparison.result = Coerce(lastComparison.version).ok

\* A version as one number: major, minor and patch as digits of base 1000.
Rank(v) == (ToNumber(v.major) * 1000 + ToNumber(v.minor)) * 1000 + ToNumber(v.patch)

\* What the comparison named op answers for two ranks.
Expected(op, mine, theirs) == IF op = "lt" THEN mine < theirs ELSE mine > theirs

\* The release 1.18.3 of the example of the specification.
Go1183 == [ok |-> TRUE, major |-> <<"1">>, minor |-> <<"1", "8">>, patch |-> <<"3">>]

\* C20: for a valid release GoVersion and an argument that parses as a
\* version, lt answers whether the version is strictly lower than the
\* argument and gt whether it is strictly higher (so both are false on
\* equality and they are never both true); go1.18.3 is gt "1.17", lt "1.19"
\* and neither for "1.18.3".
C20_ReleaseComparesStrictly ==
    (goVersion.made /\ goVersion.sv.ok /\ lastComparison.made) =>
        /\ Coerce(lastComparison.version).ok =>
              lastComparison.result =
                  Expected(lastComparison.op, Rank(goVersion.sv),
                           Rank(Coerce(lastComparison.version)))
        /\ goVersion.sv = Go1183 =>
              /\ lastComparison.version = <<"1", ".", "1", "7">> =>
                    lastComparison.result = (lastComparison.op = "gt")
              /\ lastComparison.version = <<"1", ".", "1", "9">> =>
                    lastComparison.result = (lastComparison.op = "lt")
              /\ lastComparison.version = <<"1", ".", "1", "8", ".", "3">> =>
                    lastComparison.result = FALSE

\* C20 witness: the GoVersion of "go version go1.18.3 darwin/amd64" was asked
\* lt("1.19") and answered true.
C20_Witness ==
    /\ goVersion.made
    /\ goVersion.sv = Go1183
    /\ lastComparison.made
    /\ lastComparison.op = "lt"
    /\ lastComparison.version = <<"1", ".", "1", "9">>
    /\ lastComparison.result

\* C21: a development-tip GoVersion has isDevel set and no parsed release
\* version, and answers lt with false and gt with true for every argument,
\* also one that does not parse as a version.
C21_DevelAlwaysNewer ==
    (goVersion.made /\ goVersion.isDevel) =>
        /\ ~goVersion.sv.ok
        /\ isValid(goVersion)
        /\ lastComparison.made => lastComparison.result = (lastComparison.op = "gt")

\* C21 witness: the GoVersion of "go version devel +abc123 x" was asked
\* gt("x"), an argument that does not parse, and answered true.
C21_Witness ==
    /\ goVersion.made
    /\ goVersion.isDevel
    /\ lastComparison.made
    /\ lastComparison.op = "gt"
    /\ lastComparison.version = <<"x">>
    /\ ~Coerce(lastComparison.version).ok
    /\ lastComparison.result

(***************************************************************************)
(* Two runTool calls in flight at once, each with a token of its own or    *)
(* with the same one.                                                      *)
(***************************************************************************)
MaxConcurrent == 2

ConcurrentRuns == 1..MaxConcurrent

\* No call made yet, by any of the concurrent callers.
PairInit ==
    /\ MergeInit /\ ConvInit /\ VersionInit /\ CacheInit /\ BufferInit
    /\ runs = [r \in ConcurrentRuns |-> IdleRun]
    /\ tokenCancelled = [t \in ConcurrentRuns |-> FALSE]
    /\ killTreeCalls = <<>>

\* runTool is called for a tool that is found, with a token.
PairCall ==
    \E r \in ConcurrentRuns, token \in ConcurrentRuns, severity \in Severities :
        RunTool(r, "golint", "located", severity, FALSE, FALSE, token)

PairCancel == \E t \in ConcurrentRuns : Cancel(t)

PairDeliver == \E r \in ConcurrentRuns : DeliverQueued(r)

\* A process ends, having written nothing or a line of the grammar.
PairEnds ==
    \E r \in ConcurrentRuns, err \in {"none", "ENOENT", "exit", "killed"},
       stdout \in {<<>>, TextMatch} :
        Complete(r, err, stdout, <<>>, FALSE)

PairNext == PairCall \/ PairCancel \/ PairDeliver \/ PairEnds

PairSpec == PairInit /\ [][PairNext]_vars

\* The process ids killTree is called with in a step.
NewKills == {killTreeCalls'[i] : i \in (Len(killTreeCalls) + 1)..Len(killTreeCalls')}

\* The tokens cancelled in a step.
NewlyCancelled == {t \in DOMAIN tokenCancelled : tokenCancelled'[t] /\ ~tokenCancelled[t]}

\* C15: concurrent runs are isolated.  A step that cancels a token calls
\* killTree only with the process of a run that holds that token, and
\* leaves every run with another token as it is; the end of one run leaves
\* every other run as it is; what a run has resolved with never changes, and
\* is what the callback makes of that run's own arguments and output.
C15_RunsIsolated ==
    [][/\ \A t \in NewlyCancelled :
             /\ \A pid \in NewKills :
                   \E a \in DOMAIN runs :
                       /\ runs[a].pid = pid
                       /\ runs[a].p # "unset"
                       /\ runs[a].call.made
                       /\ runs[a].call.token = t
             /\ \A b \in DOMAIN runs :
                   (runs[b].call.made /\ runs[b].call.token # t) => runs'[b] = runs[b]
       /\ \A a \in DOMAIN runs :
             runs'[a].captured # runs[a].captured =>
                 \A b \in DOMAIN runs \ {a} : runs'[b] = runs[b]
       /\ \A b \in DOMAIN runs :
             runs[b].promise.state = "resolved" => runs'[b].promise = runs[b].promise
       /\ \A b \in DOMAIN runs :
             runs'[b].captured.given =>
                 runs'[b].promise = ExecFileCallback(runs'[b].call, runs'[b].captured.err,
                                                     runs'[b].captured.stdout,
                                                     runs'[b].captured.stderr,
                                                     runs'[b].captured.editor)]_vars

\* C15 witness: two runs were in flight with different tokens; the first was
\* cancelled and only its process was killed; the second, its token never
\* cancelled, resolved with the diagnostic of the line it wrote.
C15_Witness ==
    /\ DOMAIN runs = ConcurrentRuns
    /\ runs[1].cancelledInFlight
    /\ runs[2].call.made
    /\ runs[2].call.token # runs[1].call.token
    /\ ~tokenCancelled[runs[2].call.token]
    /\ runs[2].pid = 2
    /\ killTreeCalls = <<1>>
    /\ runs[2].promise.state = "resolved"
    /\ Len(runs[2].promise.value) = 1

(***************************************************************************)
(* getGoVersion and the module's cachedGoVersion.                          *)
(***************************************************************************)
\* Nothing returned (undefined).
NoVersion == [made |-> FALSE]

\* new GoVersion(binaryPath, version), with its binaryPath.
NewGoVersionAt(binaryPath, version) ==
    [binaryPath |-> binaryPath] @@ NewGoVersion(version)

\* Mutant of CacheHit: a cached version is returned without asking isValid.
CacheHitUnchecked(cached) == cached.made

\* The test of lines 314-316: a cached version that is valid is returned.
CacheHit(cached) == cached.made /\ isValid(cached)

\* History: the cache as a call finds it.
CacheFound(cached) ==
    IF ~cached.made THEN "none"
    ELSE IF isValid(cached) THEN "valid" ELSE "invalid"

\* The outputs of "go version" in the model: a release, a development tip,
\* and a text of neither shape.
CacheTexts ==
    {<<"g", "o", " ", "v", "e", "r", "s", "i", "o", "n", " ", "g", "o", "1", ".", "9">>,
     <<"g", "o", " ", "v", "e", "r", "s", "i", "o", "n", " ", "d", "e", "v", "e", "l", " ", "+", "a", "b", "c", "1", "2", "3", " ", "x">>,
     <<"x">>}

\* getGoVersion() up to its first return or to its await of execFile.
GetGoVersion(c) ==
    /\ versionCalls[c].state = "idle"
    /\ LET goRuntimePath == goBinary
       IN versionCalls' = [versionCalls EXCEPT ![c] =
              IF goRuntimePath = "none"
              THEN [state |-> "returned", goRuntimePath |-> goRuntimePath,
                    found |-> "unread", ranProcess |-> FALSE, outcome |-> "none",
                    stdout |-> <<>>, result |-> NoVersion]
              ELSE IF CacheHit(cachedGoVersion)
              THEN [state |-> "returned", goRuntimePath |-> goRuntimePath,
                    found |-> CacheFound(cachedGoVersion), ranProcess |-> FALSE,
                    outcome |-> "none", stdout |-> <<>>, result |-> cachedGoVersion]
              ELSE [state |-> "awaiting", goRuntimePath |-> goRuntimePath,
                    found |-> CacheFound(cachedGoVersion), ranProcess |-> TRUE,
                    outcome |-> "none", stdout |-> <<>>, result |-> NoVersion]]
    /\ UNCHANGED <<cachedGoVersion, goBinary, mergeVars, runVars, convVars, versionVars, bufferVars>>

\* The awaited execFile(goRuntimePath, ['version']) settles: with stdout and
\* no stderr ("ok"), with stderr text ("stderr"), or by rejecting ("throws").
ExecFileSettles(c, outcome, stdout) ==
    /\ versionCalls[c].state = "awaiting"
    /\ IF outcome = "ok"
       THEN LET made == NewGoVersionAt(versionCalls[c].goRuntimePath, stdout)
            IN /\ cachedGoVersion' = made
               /\ versionCalls' = [versionCalls EXCEPT ![c] =
                      [@ EXCEPT !.state = "returned", !.outcome = outcome,
                                !.stdout = stdout, !.result = made]]
       ELSE /\ versionCalls' = [versionCalls EXCEPT ![c] =
                      [@ EXCEPT !.state = "returned", !.outcome = outcome]]
            /\ UNCHANGED cachedGoVersion
    /\ UNCHANGED <<goBinary, mergeVars, runVars, convVars, versionVars, bufferVars>>

\* What getBinPath('go') resolves changes: the configuration or the
\* environment names another go binary, or none.
SetGoBinary(path) ==
    /\ path # goBinary
    /\ goBinary' = path
    /\ UNCHANGED <<cachedGoVersion, versionCalls, mergeVars, runVars, convVars, versionVars, bufferVars>>

CallGetGoVersion == \E c \in VersionCalls : GetGoVersion(c)

GoVersionProcessEnds ==
    \E c \in VersionCalls, outcome \in {"ok", "stderr", "throws"}, stdout \in CacheTexts :
        ExecFileSettles(c, outcome, stdout)

GoBinaryChanges == \E path \in GoPaths \cup {"none"} : SetGoBinary(path)

CacheNext == CallGetGoVersion \/ GoVersionProcessEnds \/ GoBinaryChanges

CacheSpec == Init /\ [][CacheNext]_vars

(***************************************************************************)
(* Properties of getGoVersion.                                             *)
(***************************************************************************)
\* C22: a getGoVersion call that finds a valid cached version returns it
\* without running "go version" and leaves the cache as it is; a call that
\* finds an invalid cached version runs "go version", and when that succeeds
\* the cache and the result are the GoVersion made from its output; so no
\* call returns an invalid version without having run "go version".
C22_CacheRecomputedWhenInvalid ==
    [][\A c \in VersionCalls :
          /\ (versionCalls[c].state = "idle" /\ versionCalls'[c].state # "idle"
              /\ goBinary # "none" /\ cachedGoVersion.made) =>
                 IF isValid(cachedGoVersion)
                 THEN /\ versionCalls'[c].state = "returned"
                      /\ versionCalls'[c].result = cachedGoVersion
                      /\ ~versionCalls'[c].ranProcess
                      /\ cachedGoVersion' = cachedGoVersion
                 ELSE /\ versionCalls'[c].state = "awaiting"
                      /\ versionCalls'[c].ranProcess
          /\ (versionCalls[c].state = "awaiting" /\ versionCalls'[c].state = "returned"
              /\ versionCalls'[c].outcome = "ok") =>
                 /\ versionCalls'[c].result =
                        NewGoVersionAt(versionCalls[c].goRuntimePath, versionCalls'[c].stdout)
                 /\ cachedGoVersion' = versionCalls'[c].result
          /\ (versionCalls'[c].state = "returned" /\ versionCalls'[c].result.made
              /\ ~isValid(versionCalls'[c].result)) =>
                 versionCalls'[c].ranProcess]_vars

\* C22 witness: one call found an invalid cached version, ran "go version"
\* and returned a valid one; another found a valid cached version and
\* returned it without running "go version".
C22_Witness ==
    \E c, d \in VersionCalls :
        /\ versionCalls[c].state = "returned"
        /\ versionCalls[c].found = "invalid"
        /\ versionCalls[c].ranProcess
        /\ versionCalls[c].result.made
        /\ isValid(versionCalls[c].result)
        /\ versionCalls[d].state = "returned"
        /\ versionCalls[d].found = "valid"
        /\ ~versionCalls[d].ranProcess
        /\ versionCalls[d].result = cachedGoVersion

\* C26: every GoVersion a getGoVersion call returns has the binaryPath that
\* getBinPath('go') resolved in that call.
C26_ReturnedForResolvedBinary ==
    \A c \in VersionCalls :
        (versionCalls[c].state = "returned" /\ versionCalls[c].result.made) =>
            versionCalls[c].result.binaryPath = versionCalls[c].goRuntimePath

(***************************************************************************)
(* LineBuffer.                                                             *)
(***************************************************************************)
\* The value done() fires when buf is empty (null).
NullLast == <<"null">>

\* The chunks appended in the model: texts of at most MaxChunkLen characters.
Chunks == UNION {[1..n -> {"a", "\n"}] : n \in 0..MaxChunkLen}

\* Mutant of AppendLoop: at most one line is fired for each chunk.
AppendLoopOnce(buf, fired) ==
    LET idx == IndexFrom(buf, "\n", 1)
    IN IF idx > Len(buf) THEN [buf |-> buf, fired |-> fired]
       ELSE [buf |-> SubSeq(buf, idx + 1, Len(buf)),
             fired |-> Append(fired, SubSeq(buf, 1, idx - 1))]

\* The loop of append: while buf has a newline, the text before it is fired
\* as a line and buf becomes the text after it.
RECURSIVE AppendLoop(_, _)
AppendLoop(buf, fired) ==
    LET idx == IndexFrom(buf, "\n", 1)
    IN IF idx > Len(buf) THEN [buf |-> buf, fired |-> fired]
       ELSE AppendLoop(SubSeq(buf, idx + 1, Len(buf)),
                       Append(fired, SubSeq(buf, 1, idx - 1)))

\* listeners.forEach((listener) => listener(value)): every entry of the
\* array is called, in order; a listener pushed twice is called twice.
RECURSIVE ForEach(_, _, _)
ForEach(listeners, hears, value) ==
    IF listeners = <<>> THEN hears
    ELSE ForEach(Tail(listeners), [hears EXCEPT ![Head(listeners)] = Append(@, value)], value)

\* fireLine(line)
FireLine(hears, line) == ForEach(lineBuffer.lineListeners, hears, line)

\* fireDone(last)
FireDone(hears, last) == ForEach(lineBuffer.lastListeners, hears, last)

\* The lines the loop of append fires, one after the other.
RECURSIVE FireLines(_, _)
FireLines(hears, fired) ==
    IF fired = <<>> THEN hears
    ELSE FireLines(FireLine(hears, Head(fired)), Tail(fired))

\* The number of times a listener is in a list of listeners.
Registrations(listeners, l) == Cardinality({i \in DOMAIN listeners : listeners[i] = l})

\* The registrations a list of listeners takes and the done() calls, in the
\* model.
MaxRegistrations == 2

MaxDoneCalls == 2

\* lineBuffer.append(chunk)
AppendChunk(chunk) ==
    /\ Len(heard.chunks) < MaxChunks
    /\ LET after == AppendLoop(lineBuffer.buf \o chunk, <<>>)
       IN /\ lineBuffer' = [lineBuffer EXCEPT !.buf = after.buf]
          /\ heard' = [heard EXCEPT
                 !.chunks = Append(@, chunk),
                 !.lines = FireLines(heard.lines, after.fired)]
    /\ UNCHANGED <<mergeVars, runVars, convVars, versionVars, cacheVars>>

\* lineBuffer.done()
Done ==
    /\ heard.done < MaxDoneCalls
    /\ LET last == IF lineBuffer.buf # <<>> THEN lineBuffer.buf ELSE NullLast
       IN heard' = [heard EXCEPT
              !.done = @ + 1,
              !.last = FireDone(heard.last, last)]
    /\ UNCHANGED <<lineBuffer, mergeVars, runVars, convVars, versionVars, cacheVars>>

\* lineBuffer.onLine(listener)
OnLine(l) ==
    /\ Len(lineBuffer.lineListeners) < MaxRegistrations
    /\ lineBuffer' = [lineBuffer EXCEPT !.lineListeners = Append(@, l)]
    /\ heard' = [heard EXCEPT !.since[l] = IF @ = -1 THEN Len(heard.chunks) ELSE @]
    /\ UNCHANGED <<mergeVars, runVars, convVars, versionVars, cacheVars>>

\* lineBuffer.onDone(listener)
OnDone(l) ==
    /\ Len(lineBuffer.lastListeners) < MaxRegistrations
    /\ lineBuffer' = [lineBuffer EXCEPT !.lastListeners = Append(@, l)]
    /\ UNCHANGED <<heard, mergeVars, runVars, convVars, versionVars, cacheVars>>

AppendAny == \E chunk \in Chunks : AppendChunk(chunk)

RegisterLine == \E l \in Listeners : OnLine(l)

RegisterDone == \E l \in Listeners : OnDone(l)

BufferNext == AppendAny \/ Done \/ RegisterLine \/ RegisterDone

BufferSpec == Init /\ [][BufferNext]_vars

(***************************************************************************)
(* Properties of LineBuffer.                                               *)
(***************************************************************************)
\* The chunks in order, as one text.
RECURSIVE Concat(_)
Concat(chunks) == IF chunks = <<>> THEN <<>> ELSE Head(chunks) \o Concat(Tail(chunks))

\* The parts of a text between its newlines: all but the last are the
\* newline-terminated lines, the last is the unterminated remainder.
Parts(text) == SplitOn(text, "\n")

TerminatedLines(text) == SubSeq(Parts(text), 1, Len(Parts(text)) - 1)

Remainder(text) == Parts(text)[Len(Parts(text))]

\* C23: however the text is cut into chunks, a line listener registered
\* once, before the first append, has received exactly the newline-terminated
\* lines of the text appended so far, each once and in order; and the done()
\* that follows the chunks hands every done listener registered once one
\* value, the unterminated remainder of the text, or null when that is
\* empty.
C23_ChunkBoundaryIndependent ==
    /\ [](\A l \in Listeners :
            (heard.since[l] = 0 /\ Registrations(lineBuffer.lineListeners, l) = 1) =>
                heard.lines[l] = TerminatedLines(Concat(heard.chunks)))
    /\ [][(heard.done = 0 /\ heard'.done = 1) =>
             \A l \in Listeners :
                 Registrations(lineBuffer.lastListeners, l) = 1 =>
                     heard'.last[l] =
                         <<IF Remainder(Concat(heard.chunks)) = <<>> THEN NullLast
                           ELSE Remainder(Concat(heard.chunks))>>]_vars

\* C23 witness: "a", "\na" and "\n\n" were appended and done() called once;
\* the listeners registered once beforehand received the lines "a", "a" and
\* "", the first two cut by chunk boundaries, and null as the remainder.
C23_Witness ==
    /\ heard.done = 1
    /\ heard.chunks = <<<<"a">>, <<"\n", "a">>, <<"\n", "\n">>>>
    /\ heard.since[1] = 0
    /\ heard.since[2] = 0
    /\ Registrations(lineBuffer.lineListeners, 1) = 1
    /\ Registrations(lineBuffer.lineListeners, 2) = 1
    /\ Registrations(lineBuffer.lastListeners, 1) = 1
    /\ heard.lines[1] = <<<<"a">>, <<"a">>, <<>>>>
    /\ heard.lines[2] = heard.lines[1]
    /\ heard.last[1] = <<NullLast>>

(***************************************************************************)
(* runGodoc.                                                               *)
(***************************************************************************)
\* The package paths, receivers and symbols runGodoc is called with: a
\* missing one, a relative or plain one, an absolute path or a pointer
\* receiver.
PackagePaths == {<<>>, <<"f">>, <<"/", "p">>}

Receivers == {<<>>, <<"*", "T">>}

Symbols == {<<>>, <<"F">>}

\* What getCurrentPackage(packagePath) of ./goModules resolves with is an
\* input of the model; a package path that is not absolute stands for
\* itself (lines 972-974).
ImportPaths(packagePath) ==
    IF IsAbsolute(packagePath) THEN {<<"m", "/", "p">>} ELSE {packagePath}

\* receiver.replace(/^\*/, '')
WithoutStar(receiver) ==
    IF StartsWith(receiver, <<"*">>) THEN Tail(receiver) ELSE receiver

\* Lines 977-980: the symbol is qualified by the receiver, if there is one.
QualifiedSymbol(receiver, symbol) ==
    IF receiver # <<>> THEN WithoutStar(receiver) \o <<".">> \o symbol ELSE symbol

\* Line 983.
GodocArgs(packageImportPath, receiver, symbol) ==
    <<"doc", "-c", "-cmd", "-u", packageImportPath, QualifiedSymbol(receiver, symbol)>>

PackagePrefix == <<"p", "a", "c", "k", "a", "g", "e", " ">>

FourSpaces == <<" ", " ", " ", " ">>

\* !line.trim()
IsBlank(line) == \A i \in DOMAIN line : IsSpace(line[i])

\* Lines 996-1001: the package statement and the blank line after it are
\* dropped.  A package statement that is the only line leaves godocLines[0]
\* undefined, and its trim() throws.
GodocLines(stdout) ==
    LET godocLines == SplitLines(stdout)
    IN IF ~StartsWith(godocLines[1], PackagePrefix)
       THEN [threw |-> FALSE, lines |-> godocLines]
       ELSE LET rest == Tail(godocLines)
            IN IF rest = <<>> THEN [threw |-> TRUE, lines |-> rest]
               ELSE IF IsBlank(rest[1]) THEN [threw |-> FALSE, lines |-> Tail(rest)]
               ELSE [threw |-> FALSE, lines |-> rest]

\* Lines 1004-1009: the index (from 0, as in the source) of the last line
\* that is not blank, looked for above index 1 only.
LastLine(godocLines) ==
    LET filled == {i \in 2..(Len(godocLines) - 1) : ~IsBlank(godocLines[i + 1])}
    IN IF filled # {} THEN CHOOSE i \in filled : \A j \in filled : j <= i
       ELSE IF Len(godocLines) - 1 > 1 THEN 1
       ELSE Len(godocLines) - 1

\* Lines 1011-1017, from index i (from 0): an indented line gives its text
\* after the four spaces and a newline, a blank line a newline, any other
\* line nothing.
RECURSIVE DocFrom(_, _, _)
DocFrom(godocLines, i, lastLine) ==
    IF i > lastLine THEN <<>>
    ELSE LET line == godocLines[i + 1]
         IN (IF StartsWith(line, FourSpaces) THEN SubSeq(line, 5, Len(line)) \o <<"\n">>
             ELSE IF IsBlank(line) THEN <<"\n">>
             ELSE <<>>)
            \o DocFrom(godocLines, i + 1, lastLine)

\* The callback of execFile in runGodoc (lines 984-1019): what becomes of the
\* promise.  It stays pending when the callback throws.
GodocCallback(err, stdout, stderr) ==
    IF err # "none" THEN Rejected(err)
    ELSE LET kept == GodocLines(stdout)
         IN IF kept.threw THEN Pending
            ELSE Resolved(DocFrom(kept.lines, 1, LastLine(kept.lines)))

\* What "go doc" writes, in the model: nothing; a package statement alone;
\* a signature with an indented line and blank lines after it; a package
\* statement, a blank line, a signature, two indented lines with a blank one
\* between them; a signature, a line that is not indented and an indented one.
GodocEmpty == <<>>

GodocPackageOnly == PackagePrefix \o <<"x">>

GodocPlain == <<"f", "\n">> \o FourSpaces \o <<"d", "\n", "\n">>

GodocWithPackage ==
    PackagePrefix \o <<"x", "\n", "\n", "f", "\n">> \o FourSpaces \o <<"d", "\n", "\n">>
    \o FourSpaces \o <<"e", "\n">>

GodocUnindented == <<"f", "\n", "x", "\n">> \o FourSpaces \o <<"d">>

GodocTexts == {GodocEmpty, GodocPackageOnly, GodocPlain, GodocWithPackage, GodocUnindented}

\* runGodoc(cwd, packagePath, receiver, symbol, token) up to the return of
\* its promise (lines 953-975).
RunGodoc(r, packagePath, receiver, symbol, goRuntimePath, token) ==
    /\ ~runs[r].call.made
    /\ LET call == [made |-> TRUE, kind |-> "runGodoc", packagePath |-> packagePath,
                    receiver |-> receiver, symbol |-> symbol, binPath |-> goRuntimePath,
                    token |-> token, args |-> <<>>]
       IN runs' = [runs EXCEPT ![r] =
              [@ EXCEPT !.call = call,
                        !.promise =
                            IF packagePath = <<>> THEN Rejected("Package Path not provided")
                            ELSE IF symbol = <<>> THEN Rejected("Symbol not provided")
                            ELSE IF goRuntimePath = "none"
                                 THEN Rejected("Cannot find go binary")
                            ELSE Pending]]
    /\ UNCHANGED <<tokenCancelled, killTreeCalls, mergeVars, convVars, versionVars, cacheVars, bufferVars>>

\* The package promise resolves (lines 975-1026): go doc is started and the
\* listener registered, whatever became of the spawn.
GodocSpawn(r, packageImportPath, outcome) ==
    /\ runs[r].call.made
    /\ runs[r].call.kind = "runGodoc"
    /\ runs[r].promise = Pending
    /\ ~runs[r].execFileCalled
    /\ packageImportPath \in ImportPaths(runs[r].call.packagePath)
    /\ outcome \in ExecFileOutcomes(runs[r].call.binPath)
    /\ runs' = [runs EXCEPT ![r] =
          [@ EXCEPT !.call.args = GodocArgs(packageImportPath, runs[r].call.receiver,
                                            runs[r].call.symbol),
                    !.listener = Register(runs[r].call.token),
                    !.order = IF runs[r].call.token = 0 THEN 0 ELSE NextOrder,
                    !.execFileCalled = TRUE,
                    !.p = outcome,
                    !.pid = IF outcome = "running" THEN r ELSE 0]]
    /\ UNCHANGED <<tokenCancelled, killTreeCalls, mergeVars, convVars, versionVars, cacheVars, bufferVars>>

\* The go doc process of a run ends and execFile calls back.
GodocComplete(r, err, stdout, stderr) ==
    /\ runs[r].p \in {"running", "failed"}
    /\ runs[r].call.kind = "runGodoc"
    /\ err \in CallbackErrors(runs[r])
    /\ runs' = [runs EXCEPT ![r] =
                  [@ EXCEPT !.promise = GodocCallback(err, stdout, stderr),
                            !.p = "ended",
                            !.captured = [given |-> TRUE, err |-> err, stdout |-> stdout,
                                          stderr |-> stderr]]]
    /\ UNCHANGED <<tokenCancelled, killTreeCalls, mergeVars, convVars, versionVars, cacheVars, bufferVars>>

\* killTree is exported: the calls made from outside runTool and runGodoc.
MaxKillTreeCalls == 2

CallKillTree(processId) ==
    /\ Len(killTreeCalls) < MaxKillTreeCalls
    /\ killTreeCalls' = KillTree(killTreeCalls, processId)
    /\ UNCHANGED <<runs, tokenCancelled, mergeVars, convVars, versionVars, cacheVars, bufferVars>>

CallRunGodoc ==
    \E r \in Runs, packagePath \in PackagePaths, receiver \in Receivers, symbol \in Symbols,
       goRuntimePath \in BinPaths, token \in {0} \cup Tokens :
        RunGodoc(r, packagePath, receiver, symbol, goRuntimePath, token)

GodocPackageResolves ==
    \E r \in Runs, packageImportPath \in {<<"f">>, <<"m", "/", "p">>},
       outcome \in {"running", "failed"} :
        GodocSpawn(r, packageImportPath, outcome)

GodocProcessEnds ==
    \E r \in Runs, err \in {"none", "ENOENT", "exit", "killed"}, stdout \in GodocTexts :
        GodocComplete(r, err, stdout, <<>>)

DirectKill == \E processId \in Runs : CallKillTree(processId)

KillNext ==
    \/ CallRunTool \/ RequestCancel \/ RunQueuedListener \/ ProcessEnds
    \/ CallRunGodoc \/ GodocPackageResolves \/ GodocProcessEnds \/ DirectKill

KillSpec == Init /\ [][KillNext]_vars

\* The runs whose listener fires in a step.
NewlyFired ==
    {r \in DOMAIN runs : runs[r].listener # "fired" /\ runs'[r].listener = "fired"}

(***************************************************************************)
(* Cancellation after the process of a run has ended.                      *)
(***************************************************************************)
\* C25: a cancellation listener that fires after the process of its run has
\* ended, that is, after the execFile callback has run, does not call
\* killTree with the process id of that run.
C25_NoKillAfterCompletion ==
    [][\A r \in NewlyFired :
          (runs[r].p = "ended" /\ runs[r].pid # 0) => runs[r].pid \notin NewKills]_vars

====
